---------------------------- MODULE Spec2Model ----------------------------
(***************************************************************************)
(* A model of BinaryNinjaMCPClient (tools/re_agent/binja_mcp_client.py):   *)
(* the endpoint resolver, the SSE event buffer and its background reader,  *)
(* the two correlating waits, and the orchestrated calls                   *)
(* list_binaries, list_functions and decompile_function.                   *)
(*                                                                         *)
(* Python values are tagged records (PyNone, PyStr, PyList, PyDict, ...).  *)
(* A str is a sequence of characters, each a one-character string.         *)
(* Literals whose characters the code never inspects (method names, key    *)
(* values it only compares for equality) are written as a one-element      *)
(* sequence holding the whole literal.                                     *)
(***************************************************************************)
EXTENDS Integers, Sequences, FiniteSets, TLC

VARIABLES
    fn_in,      \* argument handed to the pure function under check
    fn_out,     \* its result, Unset before the call
    now,        \* time.time(), in ticks of TickSeconds seconds
    sse_events, \* self._sse_events: deque(maxlen=500) of (timestamp, obj)
    flood,      \* number of events published so far by the flood driver
    base_url,   \* self.base_url: PyNone or the bridge's base URL
    sse_thread, \* self._sse_thread: 0 for None, else an index into threads
    sse_running,\* self._sse_running
    threads,    \* the Thread objects created so far: "new" or "alive"
    rd,         \* the reader thread inside _sse_background: position, buf
    stream,     \* the bridge's side of the reader's /sse connection
    fr,         \* per caller thread: the frames of the calls it is inside
    available_binaries, \* self.available_binaries: binary_id -> BinaryInfo
    uuids,      \* number of uuid.uuid4() request ids drawn so far
    tally,      \* how often each counted method has been entered
    env,        \* the servers: how the bridge, the direct server and REST
                \* answer, and the request the bridge is working on
    writes      \* the mutations made so far of self._sse_events and of
                \* self.available_binaries: by whom, under which locks

vars == <<fn_in, fn_out, now, sse_events, flood, base_url, sse_thread, sse_running,
          threads, rd, stream, fr, available_binaries, uuids, tally, env, writes>>

pureVars == <<fn_in, fn_out>>
readerVars == <<sse_thread, sse_running, threads>>
rdVars == <<rd, stream>>
orchVars == <<available_binaries, uuids, tally, env>>
\* what no step of a caller thread writes
quiet == <<fn_in, fn_out, flood, rd, stream, writes>>

-----------------------------------------------------------------------------
(* Python values *)

PyNone == [t |-> "none"]
PyStr(s) == [t |-> "str", s |-> s]
PyList(l) == [t |-> "list", l |-> l]
PyDict(d) == [t |-> "dict", d |-> d]
PyInt(n) == [t |-> "int", n |-> n]
Unset == [t |-> "unset"]

IsStr(v) == v.t = "str"
IsList(v) == v.t = "list"
IsDict(v) == v.t = "dict"
IsStrOrList(v) == IsStr(v) \/ IsList(v)

\* bool(v)
Truthy(v) ==
    CASE v.t = "none" -> FALSE
      [] v.t = "str" -> Len(v.s) > 0
      [] v.t = "list" -> Len(v.l) > 0
      [] v.t = "dict" -> DOMAIN v.d # {}
      [] v.t = "int" -> v.n # 0
      [] OTHER -> FALSE

\* a or b
PyOr(a, b) == IF Truthy(a) THEN a ELSE b

\* d.get(k)
Get(v, k) == IF k \in DOMAIN v.d THEN v.d[k] ELSE PyNone

-----------------------------------------------------------------------------
(* str methods *)

Whitespace == {" ", "\n", "\r", "\t"}
AsciiDigits == {"0", "1", "2", "3", "4", "5", "6", "7", "8", "9"}

\* s.startswith(p)
StartsWith(s, p) == Len(s) >= Len(p) /\ SubSeq(s, 1, Len(p)) = p

\* sub in s
Contains(s, sub) ==
    \E i \in 0..(Len(s) - Len(sub)) : SubSeq(s, i + 1, i + Len(sub)) = sub

RECURSIVE LStrip(_)
LStrip(s) == IF s # <<>> /\ Head(s) \in Whitespace THEN LStrip(Tail(s)) ELSE s

RECURSIVE RStrip(_)
RStrip(s) ==
    IF s # <<>> /\ s[Len(s)] \in Whitespace THEN RStrip(SubSeq(s, 1, Len(s) - 1)) ELSE s

\* s.strip()
Strip(s) == RStrip(LStrip(s))

\* s with one trailing "/" removed, if it has one
RStripOneSlash(s) == IF s # <<>> /\ s[Len(s)] = "/" THEN SubSeq(s, 1, Len(s) - 1) ELSE s

\* s.rstrip("/")
RECURSIVE RStripSlash(_)
RStripSlash(s) ==
    IF s # <<>> /\ s[Len(s)] = "/" THEN RStripSlash(SubSeq(s, 1, Len(s) - 1)) ELSE s

\* s.isdigit(), on ASCII text
IsDigit(s) == s # <<>> /\ \A i \in 1..Len(s) : s[i] \in AsciiDigits

\* s.split("_")[-1]
RECURSIVE SplitLast(_)
SplitLast(s) ==
    IF \E i \in 1..Len(s) : s[i] = "_"
    THEN SplitLast(Tail(s))
    ELSE s

DigitVal(c) ==
    CASE c = "0" -> 0 [] c = "1" -> 1 [] c = "2" -> 2 [] c = "3" -> 3 [] c = "4" -> 4
      [] c = "5" -> 5 [] c = "6" -> 6 [] c = "7" -> 7 [] c = "8" -> 8 [] c = "9" -> 9

DigitChar(n) ==
    CASE n = 0 -> "0" [] n = 1 -> "1" [] n = 2 -> "2" [] n = 3 -> "3" [] n = 4 -> "4"
      [] n = 5 -> "5" [] n = 6 -> "6" [] n = 7 -> "7" [] n = 8 -> "8" [] n = 9 -> "9"

RECURSIVE DigitsValue(_)
DigitsValue(s) ==
    IF s = <<>> THEN 0 ELSE 10 * DigitsValue(SubSeq(s, 1, Len(s) - 1)) + DigitVal(s[Len(s)])

\* int(s): PyInt, or PyNone where int() raises ValueError
IntOf(s) ==
    LET body == Strip(s)
        signed == body # <<>> /\ Head(body) \in {"+", "-"}
        digits == IF signed THEN Tail(body) ELSE body
    IN  IF ~IsDigit(digits) THEN PyNone
        ELSE IF signed /\ Head(body) = "-" THEN PyInt(0 - DigitsValue(digits))
        ELSE PyInt(DigitsValue(digits))

RECURSIVE NatToStr(_)
NatToStr(n) == IF n < 10 THEN <<DigitChar(n)>> ELSE NatToStr(n \div 10) \o <<DigitChar(n % 10)>>

\* f"{n}"
IntToStr(n) == IF n < 0 THEN <<"-">> \o NatToStr(0 - n) ELSE NatToStr(n)

-----------------------------------------------------------------------------
(* Endpoint resolver: the direct base URL *)

HttpScheme == <<"h", "t", "t", "p", ":", "/", "/">>
HttpsScheme == <<"h", "t", "t", "p", "s", ":", "/", "/">>
PortPrefix == <<"p", "o", "r", "t", "_">>
LocalhostUrl == HttpScheme \o <<"l", "o", "c", "a", "l", "h", "o", "s", "t", ":">>

\* The same function with the pure-digit branch (elif bid.isdigit()) left out.
_direct_base_no_digit_branch(binary_id) ==
    LET bid == Strip(IF Truthy(binary_id) THEN binary_id.s ELSE <<>>)
        port == IF StartsWith(bid, PortPrefix) THEN IntOf(SplitLast(bid)) ELSE PyNone
    IN  IF StartsWith(bid, HttpScheme) \/ StartsWith(bid, HttpsScheme)
        THEN PyStr(RStripSlash(bid))
        ELSE IF Truthy(port) THEN PyStr(LocalhostUrl \o IntToStr(port.n))
        ELSE PyNone

\* _direct_base_from_binary_id(binary_id) -> Optional[str]
_direct_base_from_binary_id(binary_id) ==
    LET bid == Strip(IF Truthy(binary_id) THEN binary_id.s ELSE <<>>)
        port == IF StartsWith(bid, PortPrefix) THEN IntOf(SplitLast(bid))
                ELSE IF IsDigit(bid) THEN IntOf(bid)
                ELSE PyNone
    IN  IF StartsWith(bid, HttpScheme) \/ StartsWith(bid, HttpsScheme)
        THEN PyStr(RStripSlash(bid))
        ELSE IF Truthy(port) THEN PyStr(LocalhostUrl \o IntToStr(port.n))
        ELSE PyNone

-----------------------------------------------------------------------------
(* Client construction and the background reader's start *)

Callers == {1, 2}
BridgeUrl == PyStr(<<"http://bridge">>)

\* __init__: no reader thread, the running flag cleared
ReaderNotStarted == sse_thread = 0 /\ sse_running = FALSE /\ threads = <<>>

BusIdle == sse_events = <<>> /\ flood = 0 /\ writes = {}

\* a dict with no entries
EmptyDict == [k \in {} |-> PyNone]
\* the client on its own: nothing answers, nothing drawn or counted yet
NoEnv ==
    [bridge |-> "down", dialect |-> {}, direct |-> "down", rest |-> "down",
     roster |-> PyList(<<>>), names |-> PyList(<<>>), code |-> PyStr(<<>>),
     inflight |-> PyNone, bare |-> FALSE]
NoTally == [list_binaries |-> 0]
OrchIdle == available_binaries = EmptyDict /\ uuids = 0 /\ tally = NoTally /\ env = NoEnv
PureIdle == fn_in = Unset /\ fn_out = Unset

IdleCall ==
    [op |-> "none", st |-> "idle", n |-> 0, binary_id |-> PyNone, arg |-> PyNone, ret |-> Unset,
     via |-> "none", mark |-> 0, hist |-> <<>>, hit |-> Unset, ids |-> {}, log |-> <<>>,
     resolves |-> 0, resolved |-> PyNone, carried |-> <<>>]
IdleEn == [pc |-> "idle"]
IdleWt ==
    [pc |-> "idle", kind |-> "none", req_id |-> PyNone, method |-> PyNone, keys |-> <<>>,
     hint |-> PyNone, timeout |-> 0, end |-> 0, last_checked |-> 0,
     slice |-> 0, ret |-> PyNone, hit |-> Unset, entered |-> 0]
IdleRs == [pc |-> "idle", binary_id |-> PyNone, fetched |-> FALSE, servers |-> <<>>, ret |-> PyNone]
IdleLb == [pc |-> "idle", i |-> 0, servers |-> <<>>, ret |-> <<>>]
IdleDf == [pc |-> "idle", i |-> 0, req_id |-> PyNone, resolved_id |-> PyNone, waited |-> <<>>]
IdleLf == [pc |-> "idle", i |-> 0, req_id |-> PyNone, resolved_id |-> PyNone]
IdleFrames ==
    [call |-> IdleCall, df |-> IdleDf, lf |-> IdleLf, rs |-> IdleRs, lb |-> IdleLb,
     en |-> IdleEn, wt |-> IdleWt]
CallersIdle == fr = [c \in Callers |-> IdleFrames]
ReaderIdle == rd = [pc |-> "none", buf |-> <<>>, blocks |-> <<>>] /\ stream = [conn |-> "none", sent |-> 0]

AliveReaders == {i \in DOMAIN threads : threads[i] = "alive"}

\* _ensure_sse_background, statement by statement (it takes no lock)
\* if not self.base_url: return
EnsureCheckUrl(c) ==
    /\ fr[c].en.pc = "check_url"
    /\ fr' = [fr EXCEPT ![c].en.pc = IF Truthy(base_url) THEN "check_thread" ELSE "ret"]
    /\ UNCHANGED <<quiet, orchVars, now, sse_events, base_url, readerVars>>

\* self._sse_thread and self._sse_thread.is_alive()
EnsureThreadRunning == sse_thread # 0 /\ threads[sse_thread] = "alive"

\* if self._sse_thread and self._sse_thread.is_alive(): return
EnsureCheckThread(c) ==
    /\ fr[c].en.pc = "check_thread"
    /\ fr' = [fr EXCEPT ![c].en.pc = IF EnsureThreadRunning THEN "ret" ELSE "set_running"]
    /\ UNCHANGED <<quiet, orchVars, now, sse_events, base_url, readerVars>>

\* self._sse_running = True
EnsureSetRunning(c) ==
    /\ fr[c].en.pc = "set_running"
    /\ sse_running' = TRUE
    /\ fr' = [fr EXCEPT ![c].en.pc = "create"]
    /\ UNCHANGED <<quiet, orchVars, now, sse_events, base_url, sse_thread, threads>>

\* self._sse_thread = threading.Thread(target=self._sse_background, ...)
EnsureCreate(c) ==
    /\ fr[c].en.pc = "create"
    /\ threads' = Append(threads, "new")
    /\ sse_thread' = Len(threads) + 1
    /\ fr' = [fr EXCEPT ![c].en.pc = "start"]
    /\ UNCHANGED <<quiet, orchVars, now, sse_events, base_url, sse_running>>

\* self._sse_thread.start(): the attribute is read again; starting a thread
\* that was already started raises RuntimeError
EnsureStart(c) ==
    /\ fr[c].en.pc = "start"
    /\ IF threads[sse_thread] = "new"
       THEN /\ threads' = [threads EXCEPT ![sse_thread] = "alive"]
            /\ fr' = [fr EXCEPT ![c].en.pc = "ret"]
       ELSE /\ fr' = [fr EXCEPT ![c].en.pc = "raised"]
            /\ UNCHANGED threads
    /\ UNCHANGED <<quiet, orchVars, now, sse_events, base_url, sse_thread, sse_running>>

EnsureStep(c) ==
    \/ EnsureCheckUrl(c)
    \/ EnsureCheckThread(c)
    \/ EnsureSetRunning(c)
    \/ EnsureCreate(c)
    \/ EnsureStart(c)

-----------------------------------------------------------------------------
(* Event buffer *)

SseMaxLen == 500

\* deque.append on a deque without maxlen: nothing is ever discarded.
deque_append_unbounded(q, x) == Append(q, x)

\* deque(maxlen=SseMaxLen).append(x): a full deque discards its oldest item
deque_append(q, x) ==
    IF Len(q) >= SseMaxLen THEN Append(Tail(q), x) ELSE Append(q, x)

\* a mutation of a shared attribute, by a kind of thread, inside the with
\* blocks of the named locks
Write(attribute, by, locks) == [attribute |-> attribute, by |-> by, locks |-> locks]

\* _enqueue_event(obj), under self._sse_cond: append, then notify_all (a
\* waiter may leave its wait at any moment, notified or not: see WaitWake)
_enqueue_event(obj) ==
    /\ sse_events' = deque_append(sse_events, [ts |-> now, obj |-> obj])
    /\ writes' = writes \cup {Write("_sse_events", "reader", {"_sse_cond"})}

-----------------------------------------------------------------------------
(* The correlating waits, _sse_wait_for_id and _sse_wait_for *)

Jsonrpc20 == PyStr(<<"2.0">>)

\* The key loop without the isinstance test on the value.
FirstKeyOfAnyType(payload, keys, hint) ==
    LET hits == {i \in 1..Len(keys) :
                    /\ keys[i] \in DOMAIN payload.d
                    /\ ~(/\ Truthy(hint)
                          /\ IsStr(payload.d[keys[i]])
                          /\ ~Contains(payload.d[keys[i]].s, hint.s))}
    IN  IF hits = {} THEN Unset
        ELSE payload.d[keys[CHOOSE i \in hits : \A j \in hits : i <= j]]

\* for k in desired_keys: if k in payload and isinstance(payload[k], (str, list)):
\*     val = payload[k]
\*     if function_name and isinstance(val, str) and function_name not in val: continue
\*     return val
\* Unset when the loop ends without returning; hint PyNone where the loop
\* makes no function_name test.
FirstKey(payload, keys, hint) ==
    LET hits == {i \in 1..Len(keys) :
                    /\ keys[i] \in DOMAIN payload.d
                    /\ IsStrOrList(payload.d[keys[i]])
                    /\ ~(/\ Truthy(hint)
                          /\ IsStr(payload.d[keys[i]])
                          /\ ~Contains(payload.d[keys[i]].s, hint.s))}
    IN  IF hits = {} THEN Unset
        ELSE payload.d[keys[CHOOSE i \in hits : \A j \in hits : i <= j]]

\* the key loop on the payload, then on its nested "data" object
ExtractFrom(payload, keys, hint) ==
    LET top == FirstKey(payload, keys, hint)
        data_obj == IF IsDict(Get(payload, "data")) THEN Get(payload, "data") ELSE PyNone
    IN  IF top # Unset THEN top
        ELSE IF Truthy(data_obj) THEN FirstKey(data_obj, keys, hint)
        ELSE Unset

\* The second test of the loop body made without comparing the id.
MatchIdAnyPlainObject(obj, req_id, keys, hint) ==
    LET result == Get(obj, "result")
        first ==
            IF Get(obj, "jsonrpc") = Jsonrpc20 /\ Get(obj, "id") = req_id
            THEN IF IsDict(result) THEN ExtractFrom(result, keys, hint)
                 ELSE IF IsStrOrList(result) THEN result
                 ELSE Unset
            ELSE Unset
        payload == PyOr(result, obj)
        second ==
             IF IsDict(payload) THEN FirstKey(payload, keys, PyNone)
             ELSE IF IsStrOrList(payload) THEN payload
             ELSE Unset
    IN  IF ~IsDict(obj) THEN Unset
        ELSE IF first # Unset THEN first
        ELSE second

\* the body of _sse_wait_for_id's scan loop for one event: the value it
\* returns, or Unset when it goes on to the next event
MatchId(obj, req_id, keys, hint) ==
    LET result == Get(obj, "result")
        \* JSON-RPC envelope
        first ==
            IF Get(obj, "jsonrpc") = Jsonrpc20 /\ Get(obj, "id") = req_id
            THEN IF IsDict(result) THEN ExtractFrom(result, keys, hint)
                 ELSE IF IsStrOrList(result) THEN result
                 ELSE Unset
            ELSE Unset
        \* Non-JSON-RPC but with id
        payload == PyOr(result, obj)
        second ==
            IF Get(obj, "id") = req_id
            THEN IF IsDict(payload) THEN FirstKey(payload, keys, PyNone)
                 ELSE IF IsStrOrList(payload) THEN payload
                 ELSE Unset
            ELSE Unset
    IN  IF ~IsDict(obj) THEN Unset
        ELSE IF first # Unset THEN first
        ELSE second

\* the body of _sse_wait_for's scan loop for one event
MatchMethod(obj, expect_method, keys, hint) ==
    LET payload ==
            IF IsDict(obj) /\ "result" \in DOMAIN obj.d /\ Get(obj, "jsonrpc") = Jsonrpc20
            THEN obj.d["result"] ELSE obj
        method ==
            PyOr(PyOr(PyOr(Get(payload, "method"), Get(payload, "tool")),
                      Get(payload, "name")), Get(payload, "function"))
    IN  IF IsDict(payload)
        THEN IF Truthy(expect_method) /\ Truthy(method) /\ method # expect_method
             THEN Unset
             ELSE ExtractFrom(payload, keys, hint)
        ELSE IF IsList(payload) /\ \E i \in 1..Len(payload.l) : IsStr(payload.l[i])
        THEN payload
        ELSE Unset

MatchOf(w, obj) ==
    IF w.kind = "id" THEN MatchId(obj, w.req_id, w.keys, w.hint)
    ELSE MatchMethod(obj, w.method, w.keys, w.hint)

\* for ts, obj in list(self._sse_events): if ts <= last_checked: continue; ...
\* the indexes of the events whose loop body returns
ScanHits(w) ==
    {i \in 1..Len(sse_events) :
        sse_events[i].ts > w.last_checked /\ MatchOf(w, sse_events[i].obj) # Unset}

\* The clock's resolution: the model reads time.time() in ticks of this
\* many seconds.
TickSeconds == 10

\* a duration of so many seconds, in ticks (rounded up)
Ticks(seconds) == (seconds + TickSeconds - 1) \div TickSeconds

\* remaining = max(0.05, end - time.time()); min(remaining, 1.0): how long
\* one self._sse_cond.wait may block, in milliseconds
SliceFloorMs == 50
SliceCapMs == 1000
Min(a, b) == IF a <= b THEN a ELSE b
Max(a, b) == IF a >= b THEN a ELSE b
WaitSlice(end) == Min(Max(SliceFloorMs, (end - now) * TickSeconds * 1000), SliceCapMs)

\* a wait is entered: self._ensure_sse_background() is its first call
\* (entered keeps the time of the call)
WaitBegin(kind, req_id, method, keys, hint, timeout) ==
    [IdleWt EXCEPT !.pc = "ensure", !.kind = kind, !.req_id = req_id, !.method = method,
                   !.keys = keys, !.hint = hint, !.timeout = timeout, !.entered = now]

\* _ensure_sse_background has returned: end = time.time() + timeout;
\* last_checked = 0 (its RuntimeError leaves the wait as well)
WaitEnsured(c) ==
    /\ fr[c].wt.pc = "ensure"
    /\ fr[c].en.pc \in {"ret", "raised"}
    /\ fr' = [fr EXCEPT ![c].en = IdleEn,
                         ![c].wt.pc = IF fr[c].en.pc = "ret" THEN "loop" ELSE "raised",
                         ![c].wt.end = now + Ticks(fr[c].wt.timeout),
                         ![c].wt.last_checked = 0]
    /\ UNCHANGED <<quiet, orchVars, now, sse_events, base_url, readerVars>>

\* The same loop without its deadline: while True.
WaitLoopNoDeadline(c) ==
    /\ fr[c].wt.pc = "loop"
    /\ fr' = [fr EXCEPT ![c].wt.pc = "scan",
                         ![c].wt.ret = PyNone]
    /\ UNCHANGED <<quiet, orchVars, now, sse_events, base_url, readerVars>>

\* while time.time() < end: ... return None
WaitLoop(c) ==
    /\ fr[c].wt.pc = "loop"
    /\ fr' = [fr EXCEPT ![c].wt.pc = IF now < fr[c].wt.end THEN "scan" ELSE "ret",
                         ![c].wt.ret = PyNone]
    /\ UNCHANGED <<quiet, orchVars, now, sse_events, base_url, readerVars>>

\* The scan as a queue would be read: the event that satisfies the wait is
\* taken out of the buffer.
WaitScanConsuming(c) ==
    /\ fr[c].wt.pc = "scan"
    /\ LET w == fr[c].wt
           hits == ScanHits(w)
           first == CHOOSE i \in hits : \A j \in hits : i <= j
       IN  IF hits # {}
           THEN /\ fr' = [fr EXCEPT ![c].wt.pc = "ret",
                                    ![c].wt.ret = MatchOf(w, sse_events[first].obj),
                                    ![c].wt.hit = sse_events[first]]
                /\ sse_events' = [i \in 1..(Len(sse_events) - 1) |->
                                     IF i < first THEN sse_events[i] ELSE sse_events[i + 1]]
           ELSE /\ fr' = [fr EXCEPT ![c].wt.pc = "wait",
                                    ![c].wt.last_checked = now,
                                    ![c].wt.slice = WaitSlice(w.end)]
                /\ UNCHANGED sse_events
    /\ UNCHANGED <<quiet, orchVars, now, base_url, readerVars>>

\* with self._sse_cond: now = time.time(); the scan; on no return
\* last_checked = now and self._sse_cond.wait(timeout=min(remaining, 1.0))
WaitScan(c) ==
    /\ fr[c].wt.pc = "scan"
    /\ LET w == fr[c].wt
           hits == ScanHits(w)
           first == CHOOSE i \in hits : \A j \in hits : i <= j
       IN  IF hits # {}
           THEN fr' = [fr EXCEPT ![c].wt.pc = "ret",
                                 ![c].wt.ret = MatchOf(w, sse_events[first].obj),
                                 ![c].wt.hit = sse_events[first]]
           ELSE fr' = [fr EXCEPT ![c].wt.pc = "wait",
                                 ![c].wt.last_checked = now,
                                 ![c].wt.slice = WaitSlice(w.end)]
    /\ UNCHANGED <<quiet, orchVars, now, sse_events, base_url, readerVars>>

\* self._sse_cond.wait(timeout=min(remaining, 1.0)) returns: on notify_all,
\* or after at most a second, which is less than a tick; the thread runs on
\* whenever it is next scheduled
WaitWake(c) ==
    /\ fr[c].wt.pc = "wait"
    /\ fr' = [fr EXCEPT ![c].wt.pc = "loop"]
    /\ UNCHANGED <<quiet, orchVars, now, sse_events, base_url, readerVars>>

WaitStep(c) == WaitEnsured(c) \/ WaitLoop(c) \/ WaitScan(c) \/ WaitWake(c)

-----------------------------------------------------------------------------
(* The bridge's events and the clock, as the waits see them *)

MaxBusEvents == 2
MaxTime == 3

\* str(uuid.uuid4()): the n-th request id drawn (no two are equal)
ReqId(n) == PyStr(<<"uuid-">> \o NatToStr(n))
IdA == ReqId(1)
IdB == ReqId(2)
FnName == PyStr(<<"f">>)
CodeF == PyStr(<<"f", "(", ")">>)
CodeG == PyStr(<<"g", "(", ")">>)
DecompileKeys == <<"decompiled_code", "code", "text">>

Envelope(id, result) == PyDict([jsonrpc |-> Jsonrpc20, id |-> id, result |-> result])

\* what the bridge may publish while a wait for IdA is open: the answer, the
\* same shapes under another request's id, and events that carry no id
WaitIdEvents ==
    {Envelope(IdA, PyDict([code |-> CodeF])),
     Envelope(IdB, PyDict([code |-> CodeF])),
     Envelope(IdA, PyDict([data |-> PyDict([text |-> CodeG])])),
     PyDict([id |-> IdA, code |-> CodeG]),
     PyDict([id |-> IdB, text |-> CodeF]),
     PyDict([code |-> CodeF])}

\* a reader thread completes a well-formed block and enqueues its event
BusDeliver(events) ==
    /\ AliveReaders # {}
    /\ flood < MaxBusEvents
    /\ \E obj \in events : _enqueue_event(obj)
    /\ flood' = flood + 1
    /\ UNCHANGED <<pureVars, orchVars, now, base_url, readerVars, rdVars, fr>>

\* time passes
Tick ==
    /\ now < MaxTime
    /\ now' = now + 1
    /\ UNCHANGED <<pureVars, writes, orchVars, sse_events, flood, base_url, readerVars, rdVars, fr>>

-----------------------------------------------------------------------------
(* Specification SpecWait: one caller inside _sse_wait_for_id, the reader   *)
(* enqueueing events and the clock advancing                                *)

WaitTimeouts == {10, 20}

InitWait ==
    /\ OrchIdle
    /\ PureIdle
    /\ now = 1
    /\ BusIdle
    /\ base_url = BridgeUrl
    /\ \/ ReaderNotStarted
       \/ sse_thread = 1 /\ sse_running = TRUE /\ threads = <<"alive">>
    /\ ReaderIdle
    /\ CallersIdle

\* the caller enters _sse_wait_for_id(req_id, desired_keys, function_name, timeout)
WaitIdEnter(c) ==
    /\ fr[c].call.st = "idle"
    /\ \E hint \in {PyNone, FnName}, timeout \in WaitTimeouts :
          fr' = [fr EXCEPT ![c].call.op = "wait_id", ![c].call.st = "run", ![c].call.n = 1,
                           ![c].wt = WaitBegin("id", IdA, PyNone, DecompileKeys, hint, timeout),
                           ![c].en.pc = "check_url"]
    /\ UNCHANGED <<quiet, orchVars, now, sse_events, base_url, readerVars>>

NextWait ==
    \/ WaitIdEnter(1)
    \/ EnsureStep(1)
    \/ WaitStep(1)
    \/ BusDeliver(WaitIdEvents)
    \/ Tick

SpecWait == InitWait /\ [][NextWait]_vars

\* C1: a wait for id X that returns a value took it from an event whose id
\* is X, whatever else is buffered and in whatever order it arrived.
C1_OnlyOwnId ==
    \A c \in Callers :
        (fr[c].wt.pc = "ret" /\ fr[c].wt.kind = "id" /\ fr[c].wt.ret # PyNone)
            => /\ fr[c].wt.hit # Unset
               /\ IsDict(fr[c].wt.hit.obj)
               /\ Get(fr[c].wt.hit.obj, "id") = fr[c].wt.req_id

\* the wait returned a value although an event with another id, carrying an
\* expected key, was buffered ahead of the one that satisfied it
C1_Witness ==
    /\ fr[1].wt.pc = "ret"
    /\ fr[1].wt.ret = CodeF
    /\ Len(sse_events) = 2
    /\ sse_events[1].obj = Envelope(IdB, PyDict([code |-> CodeF]))
    /\ sse_events[2] = fr[1].wt.hit

-----------------------------------------------------------------------------
(* Specification SpecEnsure: caller threads entering _ensure_sse_background, *)
(* as list_binaries and decompile_function do in their first statement     *)

MaxEnsureCalls == 2

InitEnsure ==
    /\ OrchIdle
    /\ PureIdle
    /\ now = 1
    /\ BusIdle
    /\ base_url \in {PyNone, BridgeUrl}
    /\ ReaderNotStarted
    /\ ReaderIdle
    /\ CallersIdle

\* a caller thread enters _ensure_sse_background
EnsureEnter(c) ==
    /\ fr[c].call.st = "idle"
    /\ fr[c].call.n < MaxEnsureCalls
    /\ fr' = [fr EXCEPT ![c].call.op = "ensure", ![c].call.st = "run", ![c].call.n = @ + 1,
                         ![c].en.pc = "check_url"]
    /\ UNCHANGED <<quiet, orchVars, now, sse_events, base_url, readerVars>>

\* ... and leaves it, by return or with the RuntimeError
EnsureLeave(c) ==
    /\ fr[c].call.st = "run"
    /\ fr[c].call.op = "ensure"
    /\ fr[c].en.pc \in {"ret", "raised"}
    /\ fr' = [fr EXCEPT ![c].call.st = IF fr[c].en.pc = "ret" THEN "idle" ELSE "raised",
                         ![c].en = IdleEn]
    /\ UNCHANGED <<quiet, orchVars, now, sse_events, base_url, readerVars>>

NextEnsure == \E c \in Callers : EnsureEnter(c) \/ EnsureStep(c) \/ EnsureLeave(c)

SpecEnsure == InitEnsure /\ [][NextEnsure]_vars

\* C2 as stated: at any time at most one background reader thread is alive,
\* in every interleaving of concurrent _ensure_sse_background calls.
C2_AtMostOneReader == Cardinality(AliveReaders) <= 1

-----------------------------------------------------------------------------
(* The background reader, _sse_background *)

MaxStreamLines == 4

\* One line as readline() returns it, ending in "\n".  "data:" is written as
\* one five-character piece, so ln[5:] is the line without its first piece.
DataLine(frag) == <<"data:", " ", frag, "\n">>
OtherLine == <<"event: message", "\n">>
BlankLines == {<<"\n">>, <<"\r", "\n">>}
Fragments == {"{\"n\":1}", "{\"n\":", "2}", "junk"}
StreamLines == {DataLine(f) : f \in Fragments} \cup {OtherLine} \cup BlankLines

\* buf.splitlines()
RECURSIVE SplitLines(_)
SplitLines(s) ==
    IF s = <<>> THEN <<>>
    ELSE LET i == CHOOSE k \in 1..(Len(s) + 1) :
                    /\ k = Len(s) + 1 \/ s[k] = "\n"
                    /\ \A j \in 1..(k - 1) : s[j] # "\n"
         IN  <<SubSeq(s, 1, i - 1)>> \o SplitLines(SubSeq(s, i + 1, Len(s)))

\* "\n".join(lines)
RECURSIVE JoinLines(_)
JoinLines(ls) ==
    IF ls = <<>> THEN <<>>
    ELSE IF Len(ls) = 1 THEN ls[1]
    ELSE ls[1] \o <<"\n">> \o JoinLines(Tail(ls))

\* [ln[5:].strip() for ln in buf.splitlines() if ln.startswith("data:")]
RECURSIVE DataOf(_)
DataOf(ls) ==
    IF ls = <<>> THEN <<>>
    ELSE IF StartsWith(ls[1], <<"data:">>)
         THEN <<Strip(Tail(ls[1]))>> \o DataOf(Tail(ls))
         ELSE DataOf(Tail(ls))
data_lines(buf) == DataOf(SplitLines(buf))

\* json.loads(text): the document, or Unset where it raises
JsonLoads(text) ==
    IF text = <<"{\"n\":1}">> THEN PyDict([n |-> PyInt(1)])
    ELSE IF text = <<"{\"n\":", "\n", "2}">> THEN PyDict([n |-> PyInt(2)])
    ELSE Unset

\* The event of a block taken from its first data line alone.
BlockEventFirstLine(buf) ==
    IF data_lines(buf) = <<>> THEN Unset ELSE JsonLoads(data_lines(buf)[1])

\* the event a completed block yields: Unset when it has no data lines or
\* they do not parse
BlockEvent(buf) ==
    IF data_lines(buf) = <<>> THEN Unset ELSE JsonLoads(JoinLines(data_lines(buf)))

\* if not self.base_url: return
ReaderEntry ==
    /\ rd.pc = "entry"
    /\ rd' = [rd EXCEPT !.pc = IF Truthy(base_url) THEN "outer" ELSE "exit"]
    /\ UNCHANGED <<pureVars, writes, orchVars, now, sse_events, flood, base_url, readerVars, stream, fr>>

\* while self._sse_running: start = ...; buf = ""
ReaderOuter ==
    /\ rd.pc = "outer"
    /\ rd' = IF sse_running THEN [pc |-> "connect", buf |-> <<>>, blocks |-> <<>>]
                             ELSE [rd EXCEPT !.pc = "exit"]
    /\ UNCHANGED <<pureVars, writes, orchVars, now, sse_events, flood, base_url, readerVars, stream, fr>>

\* with urllib.request.urlopen(url, timeout=60) as resp: it opens or raises
ReaderConnect ==
    /\ rd.pc = "connect"
    /\ \E ok \in BOOLEAN :
          IF ok
          THEN /\ rd' = [rd EXCEPT !.pc = "inner"]
               /\ stream' = [stream EXCEPT !.conn = "open"]
          ELSE /\ rd' = [rd EXCEPT !.pc = "except"]
               /\ UNCHANGED stream
    /\ UNCHANGED <<pureVars, writes, orchVars, now, sse_events, flood, base_url, readerVars, fr>>

\* while self._sse_running: (the inner loop)
ReaderInner ==
    /\ rd.pc = "inner"
    /\ IF sse_running
       THEN rd' = [rd EXCEPT !.pc = "readline"] /\ UNCHANGED stream
       ELSE rd' = [rd EXCEPT !.pc = "outer"] /\ stream' = [stream EXCEPT !.conn = "none"]
    /\ UNCHANGED <<pureVars, writes, orchVars, now, sse_events, flood, base_url, readerVars, fr>>

\* what became of the blocks completed on this connection, in order:
\* "event" for one that was enqueued, "dropped" for one that was not
Outcome(buf, blocks) ==
    IF buf = <<>> THEN blocks
    ELSE Append(blocks, IF BlockEvent(buf) # Unset THEN "event" ELSE "dropped")

\* The loop body with buf = "" only after a block that was enqueued.
ReaderHandleLineKeepsDropped(chunk) ==
    IF Strip(chunk) = <<>>
    THEN /\ rd' = [pc |-> "inner",
                   buf |-> IF BlockEvent(rd.buf) # Unset THEN <<>> ELSE rd.buf,
                   blocks |-> Outcome(rd.buf, rd.blocks)]
         /\ IF rd.buf # <<>> /\ BlockEvent(rd.buf) # Unset
            THEN _enqueue_event(BlockEvent(rd.buf))
            ELSE UNCHANGED <<sse_events, writes>>
    ELSE /\ rd' = [pc |-> "inner", buf |-> rd.buf \o chunk, blocks |-> rd.blocks]
         /\ UNCHANGED <<sse_events, writes>>

\* the loop body for a non-empty chunk: a blank line completes the pending
\* block (parsed and enqueued, or dropped), any other line is added to buf
ReaderHandleLine(chunk) ==
    IF Strip(chunk) = <<>>
    THEN /\ rd' = [pc |-> "inner", buf |-> <<>>, blocks |-> Outcome(rd.buf, rd.blocks)]
         /\ IF rd.buf # <<>> /\ BlockEvent(rd.buf) # Unset
            THEN _enqueue_event(BlockEvent(rd.buf))
            ELSE UNCHANGED <<sse_events, writes>>
    ELSE /\ rd' = [pc |-> "inner", buf |-> rd.buf \o chunk, blocks |-> rd.blocks]
         /\ UNCHANGED <<sse_events, writes>>

\* chunk = resp.readline().decode(...) and what the loop body does with it
ReaderReadline ==
    /\ rd.pc = "readline"
    /\ \/ \* end of stream: readline returns "" (and goes on doing so);
          \* if not chunk: time.sleep(0.05); continue
          /\ stream.conn = "ended"
          /\ rd' = [rd EXCEPT !.pc = "sleep"]
          /\ UNCHANGED <<sse_events, stream, writes>>
       \/ \* OSError with errno 11 or 115: sleep and read again
          /\ stream.conn = "open"
          /\ rd' = [rd EXCEPT !.pc = "sleep"]
          /\ UNCHANGED <<sse_events, stream, writes>>
       \/ \* any other error (reset, read timeout): leaves both loops' try
          /\ stream.conn = "open"
          /\ rd' = [rd EXCEPT !.pc = "except"]
          /\ UNCHANGED <<sse_events, stream, writes>>
       \/ \* a line arrives
          /\ stream.conn = "open"
          /\ stream.sent < MaxStreamLines
          /\ \E chunk \in StreamLines :
                /\ ReaderHandleLine(chunk)
                /\ stream' = [stream EXCEPT !.sent = @ + 1]
    /\ UNCHANGED <<pureVars, orchVars, now, flood, base_url, readerVars, fr>>

\* time.sleep(0.05); continue
ReaderSleep ==
    /\ rd.pc = "sleep"
    /\ rd' = [rd EXCEPT !.pc = "inner"]
    /\ UNCHANGED <<pureVars, writes, orchVars, now, sse_events, flood, base_url, readerVars, stream, fr>>

\* The handler of a reader that gives up at the first error.
ReaderExceptGivesUp ==
    /\ rd.pc = "except"
    /\ rd' = [rd EXCEPT !.pc = "exit"]
    /\ stream' = [stream EXCEPT !.conn = "none"]
    /\ UNCHANGED <<pureVars, writes, orchVars, now, sse_events, flood, base_url, readerVars, fr>>

\* except Exception: the with block has closed the connection; print
ReaderExcept ==
    /\ rd.pc = "except"
    /\ rd' = [rd EXCEPT !.pc = "backoff"]
    /\ stream' = [stream EXCEPT !.conn = "none"]
    /\ UNCHANGED <<pureVars, writes, orchVars, now, sse_events, flood, base_url, readerVars, fr>>

\* time.sleep(0.5), then the outer loop again
ReaderBackoff ==
    /\ rd.pc = "backoff"
    /\ rd' = [rd EXCEPT !.pc = "outer"]
    /\ UNCHANGED <<pureVars, writes, orchVars, now, sse_events, flood, base_url, readerVars, stream, fr>>

ReaderStep ==
    \/ ReaderEntry
    \/ ReaderOuter
    \/ ReaderConnect
    \/ ReaderInner
    \/ ReaderReadline
    \/ ReaderSleep
    \/ ReaderExcept
    \/ ReaderBackoff

\* the bridge ends the stream: every later read returns end-of-stream
ServerEndsStream ==
    /\ stream.conn = "open"
    /\ stream' = [stream EXCEPT !.conn = "ended"]
    /\ UNCHANGED <<pureVars, writes, orchVars, now, sse_events, flood, base_url, readerVars, rd, fr>>

-----------------------------------------------------------------------------
(* Specification SpecReader: one started reader and the bridge's stream;    *)
(* FairSpecReader adds that the reader thread keeps being scheduled         *)

InitReader ==
    /\ OrchIdle
    /\ PureIdle
    /\ now = 1
    /\ BusIdle
    /\ base_url = BridgeUrl
    /\ sse_thread = 1 /\ sse_running = TRUE /\ threads = <<"alive">>
    /\ rd = [pc |-> "entry", buf |-> <<>>, blocks |-> <<>>]
    /\ stream = [conn |-> "none", sent |-> 0]
    /\ CallersIdle

NextReader == ReaderStep \/ ServerEndsStream

SpecReader == InitReader /\ [][NextReader]_vars

FairSpecReader == SpecReader /\ WF_vars(ReaderStep)

\* C3 as stated: after the stream terminates (reads return end-of-stream)
\* the reader backs off and then opens a new connection.
C3_ReconnectsAfterStreamEnd == (stream.conn = "ended") ~> (rd.pc = "backoff")

-----------------------------------------------------------------------------
(* Specification SpecDirect: _direct_base_from_binary_id on bounded inputs *)

MaxDigits == 4
ModelDigits == {"0", "1", "9"}
DigitStrings == UNION {[1..k -> ModelDigits] : k \in 1..MaxDigits}
SrvPrefix == <<"s", "r", "v", "_">>
LiteralPrefixes == {PortPrefix, SrvPrefix}
UrlInputs ==
    {HttpScheme \o <<"h">>, HttpScheme \o <<"h", "/">>, HttpsScheme \o <<"h", "/", "/">>,
     HttpScheme \o <<"h", ":", "9", "/", "a">>}
DirectInputs ==
    {PyNone, PyStr(<<>>), PyStr(<<"l", "i", "b">>), PyStr(<<" ", "9", "\n">>)}
    \cup {PyStr(d) : d \in DigitStrings}
    \cup {PyStr(p \o d) : p \in LiteralPrefixes, d \in DigitStrings}
    \cup {PyStr(u) : u \in UrlInputs}


InitDirect ==
    /\ OrchIdle
    /\ fn_in \in DirectInputs
    /\ fn_out = Unset
    /\ now = 1
    /\ BusIdle
    /\ base_url = PyNone
    /\ ReaderNotStarted
    /\ ReaderIdle
    /\ CallersIdle

DirectBaseCall ==
    /\ fn_out = Unset
    /\ fn_out' = _direct_base_from_binary_id(fn_in)
    /\ UNCHANGED <<fn_in, writes, orchVars, now, sse_events, flood, base_url, readerVars, rdVars, fr>>

NextDirect == DirectBaseCall

SpecDirect == InitDirect /\ [][NextDirect]_vars

\* C5 as stated: for every identifier <literal prefix>_<D>, or D alone, with D
\* any non-empty string of decimal digits, the result is "http://localhost:"
\* followed by the same digit string D.
C5_SameDigitString ==
    fn_out # Unset =>
        \A d \in DigitStrings :
            (fn_in = PyStr(d) \/ \E p \in LiteralPrefixes : fn_in = PyStr(p \o d))
                => fn_out = PyStr(LocalhostUrl \o d)

\* C5 amended: for the identifiers port_<D> and D, with D a non-empty string
\* of ASCII decimal digits that does not start with 0, the result is
\* "http://localhost:" followed by D.
C5_PortNumeral ==
    fn_out # Unset =>
        \A d \in DigitStrings :
            (Head(d) # "0" /\ fn_in \in {PyStr(d), PyStr(PortPrefix \o d)})
                => fn_out = PyStr(LocalhostUrl \o d)

C5_Witness ==
    /\ fn_in = PyStr(PortPrefix \o <<"9", "0", "0", "9">>)
    /\ fn_out = PyStr(LocalhostUrl \o <<"9", "0", "0", "9">>)

\* the identifier is an absolute http:// or https:// URL
IsAbsoluteUrl(v) == IsStr(v) /\ (StartsWith(v.s, HttpScheme) \/ StartsWith(v.s, HttpsScheme))

\* C20 as stated: for an identifier that is an absolute http:// or https://
\* URL the result is that URL, with its trailing slash removed if it ends in
\* one.
C20_OneTrailingSlashRemoved ==
    (fn_out # Unset /\ IsAbsoluteUrl(fn_in))
        => fn_out = PyStr(IF fn_in.s[Len(fn_in.s)] = "/"
                          THEN SubSeq(fn_in.s, 1, Len(fn_in.s) - 1) ELSE fn_in.s)

\* C20 amended: for an identifier that is an absolute http:// or https:// URL
\* the result is the longest prefix of that URL that does not end in "/":
\* every trailing slash is removed, nothing else is changed, and the result
\* is not a localhost address made from a port number.
C20_AllTrailingSlashesRemoved ==
    (fn_out # Unset /\ IsAbsoluteUrl(fn_in))
        => /\ IsStr(fn_out)
           /\ Len(fn_out.s) <= Len(fn_in.s)
           /\ fn_out.s = SubSeq(fn_in.s, 1, Len(fn_out.s))
           /\ \A i \in (Len(fn_out.s) + 1)..Len(fn_in.s) : fn_in.s[i] = "/"
           /\ fn_out.s # <<>> => fn_out.s[Len(fn_out.s)] # "/"

\* a URL that ends in two slashes has been resolved, and both are gone
C20_Witness ==
    /\ fn_in = PyStr(HttpsScheme \o <<"h", "/", "/">>)
    /\ fn_out = PyStr(HttpsScheme \o <<"h">>)

-----------------------------------------------------------------------------
(* Specification SpecFlood: a synthetic flood of numbered events *)

MaxFlood == 600

InitFlood ==
    /\ OrchIdle
    /\ PureIdle
    /\ now = 1
    /\ BusIdle
    /\ base_url = BridgeUrl
    /\ ReaderNotStarted
    /\ ReaderIdle
    /\ CallersIdle

\* the reader publishes event number `flood`
Publish ==
    /\ flood < MaxFlood
    /\ _enqueue_event(PyInt(flood))
    /\ flood' = flood + 1
    /\ UNCHANGED <<pureVars, orchVars, now, base_url, readerVars, rdVars, fr>>

NextFlood == Publish

SpecFlood == InitFlood /\ [][NextFlood]_vars

\* C4: the buffer never holds more than 500 events, and it holds exactly the
\* newest ones in arrival order: after events 0..n-1 it holds events
\* max(0, n-500)..n-1, so after 0..599 it holds 100..599.
C4_NewestRetained ==
    LET n == Len(sse_events)
    IN  /\ n <= SseMaxLen
        /\ n = IF flood < SseMaxLen THEN flood ELSE SseMaxLen
        /\ \A i \in 1..n : sse_events[i].obj = PyInt(flood - n + i - 1)

C4_Witness ==
    /\ flood = 600
    /\ Len(sse_events) = 500
    /\ sse_events[1].obj = PyInt(100)
    /\ sse_events[500].obj = PyInt(599)

-----------------------------------------------------------------------------
(* The servers: the bridge's POST /message, REST under base_url, and the    *)
(* direct server of one binary                                              *)

RosterMethods ==
    <<PyStr(<<"list_binary_servers">>), PyStr(<<"list_binja_servers">>),
      PyStr(<<"list_binja_servers_smart-diff">>)>>
DecompileMethods ==
    <<PyStr(<<"decompile_binary_function_smart-diff">>),
      PyStr(<<"decompile_binary_function_smart_diff">>),
      PyStr(<<"decompile_binary_function">>), PyStr(<<"decompile">>)>>
FunctionMethods ==
    <<PyStr(<<"list_binary_functions_smart-diff">>),
      PyStr(<<"list_binary_functions_smart_diff">>),
      PyStr(<<"list_functions">>), PyStr(<<"list_binary_functions">>)>>

Range(seq) == {seq[i] : i \in DOMAIN seq}

\* urlopen raises (connection refused, timeout)
Refused == [st |-> "refused"]
\* a response with its status and body; the body is JSON text (given by the
\* value json.loads makes of it) or other text
Http(status, body) == [st |-> "http", status |-> status, body |-> body]
Json(v) == [k |-> "json", v |-> v]
Text(chars) == [k |-> "text", s |-> chars]

\* what the backend behind the bridge answers to a method it serves
Result(method) ==
    IF method \in Range(RosterMethods) THEN env.roster
    ELSE IF method \in Range(DecompileMethods) THEN PyDict([code |-> env.code])
    ELSE IF env.bare THEN env.names
    ELSE PyDict([functions |-> env.names])

JsonRpcError(id) ==
    PyDict([jsonrpc |-> Jsonrpc20, id |-> id, error |-> PyStr(<<"method not found">>)])

\* the body of a bridge that acknowledges a POST in plain text
AckText == <<"a", "c", "c", "e", "p", "t", "e", "d", "\n">>

\* the bridge's response to POST /message with this JSON body
BridgeReply(body) ==
    CASE env.bridge = "down" -> Refused
      [] env.bridge = "async" -> Http(202, Text(<<>>))
      [] env.bridge = "failing" -> Http(500, Text(<<"internal error">>))
      [] env.bridge = "ack" -> Http(200, Text(AckText))
      [] env.bridge = "sync" ->
            IF Get(body, "jsonrpc") # Jsonrpc20 THEN Http(400, Text(<<"bad request">>))
            ELSE IF Get(body, "method") \in env.dialect
            THEN Http(200, Json(Envelope(Get(body, "id"), Result(Get(body, "method")))))
            ELSE Http(200, Json(JsonRpcError(Get(body, "id"))))

\* the servers after that POST: an asynchronous bridge takes up a JSON-RPC
\* request for a method it serves, in place of the one it was working on
AfterPost(e, body) ==
    IF /\ e.bridge = "async"
       /\ Get(body, "jsonrpc") = Jsonrpc20
       /\ Get(body, "method") \in e.dialect
    THEN [e EXCEPT !.inflight = body]
    ELSE e

\* params or {}
ParamsOrEmpty(params) == PyOr(params, PyDict(EmptyDict))

JsonRpcBody(method, params, req_id) ==
    PyDict([jsonrpc |-> Jsonrpc20, id |-> req_id, method |-> method,
            params |-> ParamsOrEmpty(params)])

\* The return value without the unwrapping of the envelope: whatever JSON
\* the response holds.
BridgeCallJsonrpcWholeReply(method, params, req_id) ==
    LET r == BridgeReply(JsonRpcBody(method, params, req_id))
        obj == r.body.v
    IN  IF ~Truthy(base_url) THEN PyNone
        ELSE IF r.st = "refused" THEN PyNone
        ELSE IF r.status >= 400 THEN PyNone
        ELSE IF r.body.k = "json" THEN obj
        ELSE IF Strip(r.body.s) # <<>> THEN PyStr(r.body.s) ELSE PyNone

\* _bridge_call_jsonrpc(method, params, req_id): its return value
_bridge_call_jsonrpc(method, params, req_id) ==
    LET r == BridgeReply(JsonRpcBody(method, params, req_id))
        obj == r.body.v
    IN  IF ~Truthy(base_url) THEN PyNone
        ELSE IF r.st = "refused" THEN PyNone
        ELSE IF r.status >= 400 THEN PyNone
        ELSE IF r.body.k = "json"
        THEN IF IsDict(obj) /\ Get(obj, "jsonrpc") = Jsonrpc20 /\ Get(obj, "id") = req_id
             THEN Get(obj, "result")
             ELSE obj
        ELSE IF Strip(r.body.s) # <<>> THEN PyStr(r.body.s) ELSE PyNone

\* the five request shapes _bridge_call tries in turn
Payloads(method, params) ==
    <<PyDict([method |-> method, params |-> ParamsOrEmpty(params)]),
      PyDict([jsonrpc |-> Jsonrpc20, id |-> PyInt(1), method |-> method,
              params |-> ParamsOrEmpty(params)]),
      PyDict([tool |-> method, params |-> ParamsOrEmpty(params)]),
      PyDict([name |-> method, arguments |-> ParamsOrEmpty(params)]),
      PyDict([function |-> method, args |-> ParamsOrEmpty(params)])>>

\* for body in payloads: ... ; falling out of the loop returns None
RECURSIVE BridgeCallFrom(_)
BridgeCallFrom(bodies) ==
    IF bodies = <<>> THEN PyNone
    ELSE LET r == BridgeReply(Head(bodies))
             obj == r.body.v
         IN  IF r.st = "refused" THEN BridgeCallFrom(Tail(bodies))
             ELSE IF r.status >= 400 THEN BridgeCallFrom(Tail(bodies))
             ELSE IF r.body.k = "text"
             THEN IF Strip(r.body.s) # <<>> THEN PyStr(r.body.s) ELSE PyNone
             ELSE IF IsDict(obj) /\ Get(obj, "jsonrpc") = Jsonrpc20
             THEN IF "result" \in DOMAIN obj.d THEN obj.d["result"]
                  ELSE IF "error" \in DOMAIN obj.d THEN BridgeCallFrom(Tail(bodies))
                  ELSE obj
             ELSE obj

\* _bridge_call(method, params): its return value
_bridge_call(method, params) ==
    IF ~Truthy(base_url) THEN PyNone ELSE BridgeCallFrom(Payloads(method, params))

\* REST under base_url: GET <base_url>/<path>
RestServers == <<"servers">>
RestFunctions(binary_id) == <<"binaries/">> \o binary_id.s \o <<"/functions">>
RestDecompile(binary_id) == <<"binaries/">> \o binary_id.s \o <<"/decompile">>

\* _http_get_json(path): a path the REST server does not route is a 404,
\* which urlopen raises
_http_get_json(path) ==
    IF ~Truthy(base_url) \/ env.rest # "ok" THEN PyNone
    ELSE IF path = RestServers THEN env.roster
    ELSE IF path[1] = "binaries/" /\ path[Len(path)] = "/functions" THEN env.names
    ELSE PyNone

\* _http_get_text(path, params)
_http_get_text(path) ==
    IF ~Truthy(base_url) \/ env.rest # "ok" THEN PyNone
    ELSE IF path[1] = "binaries/" /\ path[Len(path)] = "/decompile" THEN env.code
    ELSE PyNone

\* the direct server of a binary: one answer for GET and for POST
DirectReply(route) ==
    IF env.direct # "ok" THEN PyNone
    ELSE IF route = "/decompile" THEN PyDict([decompiled_code |-> env.code])
    ELSE IF route = "/functions" THEN PyDict([functions |-> env.names])
    ELSE PyNone

\* _http_get_json_full(f"{direct_base}{route}...")
_http_get_json_full(direct_base, route) == DirectReply(route)
\* _http_post_json_full(f"{direct_base}{route}", body)
_http_post_json_full(direct_base, route) == DirectReply(route)

-----------------------------------------------------------------------------
(* BinaryInfo and the parsing of a roster *)

BinaryInfo(binary_id, name, architecture, base_address) ==
    [binary_id |-> binary_id, name |-> name, architecture |-> architecture,
     base_address |-> base_address]

\* str(v)
Str(v) ==
    CASE v.t = "str" -> v.s
      [] v.t = "int" -> IntToStr(v.n)
      [] v.t = "none" -> <<"None">>
      [] OTHER -> <<"<repr>">>

\* int(v): PyInt, or PyNone where int() raises
IntCast(v) ==
    CASE v.t = "int" -> v
      [] v.t = "str" -> IntOf(v.s)
      [] OTHER -> PyNone

\* it.get(k1) or it.get(k2) or ...
RECURSIVE FirstTruthy(_, _)
FirstTruthy(it, ks) ==
    IF Len(ks) = 1 THEN Get(it, ks[1])
    ELSE PyOr(Get(it, ks[1]), FirstTruthy(it, Tail(ks)))

BridgeIdKeys == <<"id", "binary_id", "server_id", "name">>
RestIdKeys == <<"id", "binary_id", "name">>
DefaultArch == PyStr(<<"mips32">>)

\* for it in items: ... servers.append(BinaryInfo(...)): the list as the loop
\* leaves it, and whether the loop raised (it.get on something that is no
\* dict, int() of a base address that is no number).  guarded: the loop
\* body is under "if isinstance(it, dict)".
RECURSIVE ParseServers(_, _, _, _)
ParseServers(items, idKeys, guarded, servers) ==
    IF items = <<>> THEN [servers |-> servers, raised |-> FALSE]
    ELSE LET it == Head(items)
             bid == FirstTruthy(it, idKeys)
             name == PyOr(PyOr(Get(it, "name"), Get(it, "title")), bid)
             arch == PyOr(PyOr(Get(it, "architecture"), Get(it, "arch")), DefaultArch)
             base == IntCast(PyOr(Get(it, "base_address"), PyInt(0)))
         IN  IF ~IsDict(it)
             THEN IF guarded THEN ParseServers(Tail(items), idKeys, guarded, servers)
                  ELSE [servers |-> servers, raised |-> TRUE]
             ELSE IF ~Truthy(bid) THEN ParseServers(Tail(items), idKeys, guarded, servers)
             ELSE IF base = PyNone THEN [servers |-> servers, raised |-> TRUE]
             ELSE ParseServers(Tail(items), idKeys, guarded,
                               Append(servers, BinaryInfo(Str(bid), Str(name), Str(arch), base.n)))

\* {b.binary_id: b for b in servers}
RECURSIVE DictOf(_)
DictOf(servers) ==
    IF servers = <<>> THEN EmptyDict
    ELSE LET rest == DictOf(SubSeq(servers, 1, Len(servers) - 1))
             b == servers[Len(servers)]
         IN  [k \in DOMAIN rest \cup {b.binary_id} |-> IF k = b.binary_id THEN b ELSE rest[k]]

\* for b in known_binaries: d[b.binary_id] = b
RECURSIVE DictUpdate(_, _)
DictUpdate(d, servers) ==
    IF servers = <<>> THEN d
    ELSE LET b == Head(servers)
         IN  DictUpdate([k \in DOMAIN d \cup {b.binary_id} |-> IF k = b.binary_id THEN b ELSE d[k]],
                        Tail(servers))

known_binaries ==
    <<BinaryInfo(<<"p", "o", "r", "t", "_", "9", "0", "0", "9">>, <<"libimp.so (T31 v1.1.6)">>, <<"mips32">>, 0),
      BinaryInfo(<<"p", "o", "r", "t", "_", "9", "0", "1", "2">>, <<"libimp.so (T23)">>, <<"mips32">>, 0),
      BinaryInfo(<<"p", "o", "r", "t", "_", "9", "0", "1", "3">>, <<"tx-isp-t23.ko">>, <<"mips32">>, 0)>>

-----------------------------------------------------------------------------
(* list_binaries *)

RosterKeys == <<"servers", "binaries", "list">>
RosterScanTimeout == 6
RestEndpoints == <<RestServers, <<"list_binja_servers">>, <<"api/servers">>>>
NoParams == PyDict(EmptyDict)

\* the frames of a caller that enters list_binaries: its first statement is
\* self._ensure_sse_background()
LbEnter(f) == [f EXCEPT !.lb = [IdleLb EXCEPT !.pc = "ensure"], !.en.pc = "check_url"]

\* _ensure_sse_background has returned (or raised, which list_binaries lets
\* through); servers = []; if self.base_url: ...
LbEnsured(c) ==
    /\ fr[c].lb.pc = "ensure"
    /\ fr[c].en.pc \in {"ret", "raised"}
    /\ fr' = [fr EXCEPT ![c].en = IdleEn,
                         ![c].lb.i = 1,
                         ![c].lb.pc = IF fr[c].en.pc = "raised" THEN "raised"
                                      ELSE IF Truthy(base_url) THEN "method"
                                      ELSE "finish"]
    /\ UNCHANGED <<quiet, orchVars, now, sse_events, base_url, readerVars>>

\* one round of "for method in (...)": the JSON-RPC POST, the generic POST
\* when that gave nothing, the parse of a list answer, break once a parse
\* went through and servers is non-empty
LbMethod(c) ==
    /\ fr[c].lb.pc = "method"
    /\ LET i == fr[c].lb.i
           method == RosterMethods[i]
           req_id == ReqId(uuids + 1)
           sync == _bridge_call_jsonrpc(method, NoParams, req_id)
           candidate == IF Truthy(sync) THEN sync ELSE _bridge_call(method, NoParams)
           parsed == IsList(candidate) /\ Truthy(candidate)
           p == IF parsed THEN ParseServers(candidate.l, BridgeIdKeys, FALSE, fr[c].lb.servers)
                ELSE [servers |-> fr[c].lb.servers, raised |-> FALSE]
           last == (parsed /\ ~p.raised /\ p.servers # <<>>) \/ i = Len(RosterMethods)
       IN  /\ fr' = [fr EXCEPT ![c].lb.servers = p.servers,
                               ![c].call.ids = @ \cup {req_id},
                               ![c].lb.i = IF last THEN 1 ELSE i + 1,
                               ![c].lb.pc = IF ~last THEN "method"
                                            ELSE IF p.servers = <<>> THEN "scan"
                                            ELSE "rest"]
           /\ env' = AfterPost(env, JsonRpcBody(method, NoParams, req_id))
    /\ uuids' = uuids + 1
    /\ UNCHANGED <<quiet, available_binaries, tally, now, sse_events, base_url, readerVars>>

\* if not servers: for ev_method in (...): sse_res = self._sse_wait_for(...)
LbScanStart(c) ==
    /\ fr[c].lb.pc = "scan"
    /\ fr' = [fr EXCEPT ![c].lb.pc = "scan_wait",
                         ![c].wt = WaitBegin("method", PyNone, RosterMethods[fr[c].lb.i],
                                             RosterKeys, PyNone, RosterScanTimeout),
                         ![c].en.pc = "check_url"]
    /\ UNCHANGED <<quiet, orchVars, now, sse_events, base_url, readerVars>>

\* _sse_wait_for has returned: the guarded parse of a list, break when
\* servers is non-empty
LbScanDone(c) ==
    /\ fr[c].lb.pc = "scan_wait"
    /\ fr[c].wt.pc \in {"ret", "raised"}
    /\ LET i == fr[c].lb.i
           sse_res == fr[c].wt.ret
           parsed == IsList(sse_res) /\ Truthy(sse_res)
           p == IF parsed THEN ParseServers(sse_res.l, BridgeIdKeys, TRUE, fr[c].lb.servers)
                ELSE [servers |-> fr[c].lb.servers, raised |-> FALSE]
           last == (parsed /\ ~p.raised /\ p.servers # <<>>) \/ i = Len(RosterMethods)
       IN  fr' = IF fr[c].wt.pc = "raised"
                 THEN [fr EXCEPT ![c].wt = IdleWt, ![c].lb.pc = "raised"]
                 ELSE [fr EXCEPT ![c].wt = IdleWt,
                                 ![c].lb.servers = p.servers,
                                 ![c].lb.i = IF last THEN 1 ELSE i + 1,
                                 ![c].lb.pc = IF last THEN "rest" ELSE "scan"]
    /\ UNCHANGED <<quiet, orchVars, now, sse_events, base_url, readerVars>>

\* for endpoint in (...): data = self._http_get_json(endpoint); a non-empty
\* list is parsed, and the loop left unless the parse raised
RECURSIVE RestLoop(_, _)
RestLoop(k, servers) ==
    IF k > Len(RestEndpoints) THEN servers
    ELSE LET data == _http_get_json(RestEndpoints[k])
             p == ParseServers(data.l, RestIdKeys, FALSE, servers)
         IN  IF IsList(data) /\ Truthy(data)
             THEN IF p.raised THEN RestLoop(k + 1, p.servers) ELSE p.servers
             ELSE RestLoop(k + 1, servers)

\* if not servers and self.base_url: the REST endpoints
LbRest(c) ==
    /\ fr[c].lb.pc = "rest"
    /\ fr' = [fr EXCEPT ![c].lb.pc = "finish",
                         ![c].lb.servers = IF @ = <<>> /\ Truthy(base_url)
                                           THEN RestLoop(1, <<>>) ELSE @]
    /\ UNCHANGED <<quiet, orchVars, now, sse_events, base_url, readerVars>>

\* if servers: the cache is replaced by them and they are returned; else the
\* known list is added to the cache and returned; neither statement is
\* inside a with block
LbFinish(c) ==
    /\ fr[c].lb.pc = "finish"
    /\ LET servers == fr[c].lb.servers
       IN  IF servers # <<>>
           THEN /\ available_binaries' = DictOf(servers)
                /\ fr' = [fr EXCEPT ![c].lb.pc = "ret", ![c].lb.ret = servers]
           ELSE /\ available_binaries' = DictUpdate(available_binaries, known_binaries)
                /\ fr' = [fr EXCEPT ![c].lb.pc = "ret", ![c].lb.ret = known_binaries]
    /\ writes' = writes \cup {Write("available_binaries", "caller", {})}
    /\ UNCHANGED <<pureVars, flood, rdVars, uuids, tally, env, now, sse_events, base_url,
                   readerVars>>

LbStep(c) ==
    \/ LbEnsured(c)
    \/ LbMethod(c)
    \/ LbScanStart(c)
    \/ LbScanDone(c)
    \/ LbRest(c)
    \/ LbFinish(c)

-----------------------------------------------------------------------------
(* _resolve_binary_id *)

Matches(b, binary_id) == b.binary_id = binary_id.s \/ b.name = binary_id.s

\* The choice made without looking at how many servers there are.
ResolveChoiceFirstServer(binary_id, servers) ==
    LET hits == {i \in 1..Len(servers) : Matches(servers[i], binary_id)}
    IN  IF servers = <<>> THEN binary_id
        ELSE IF hits # {}
        THEN PyStr(servers[CHOOSE i \in hits : \A j \in hits : i <= j].binary_id)
        ELSE PyStr(servers[1].binary_id)

\* if servers: the first exact id or name match; with one server only, that
\* server (prefixed identifier or not); otherwise, and for an empty roster,
\* the identifier itself
ResolveChoice(binary_id, servers) ==
    LET hits == {i \in 1..Len(servers) : Matches(servers[i], binary_id)}
    IN  IF servers = <<>> THEN binary_id
        ELSE IF hits # {}
        THEN PyStr(servers[CHOOSE i \in hits : \A j \in hits : i <= j].binary_id)
        ELSE IF StartsWith(binary_id.s, PortPrefix) /\ Len(servers) = 1
        THEN PyStr(servers[1].binary_id)
        ELSE IF Len(servers) = 1 THEN PyStr(servers[1].binary_id)
        ELSE binary_id

\* the frames of a caller that calls _resolve_binary_id(binary_id)
RsEnter(f, binary_id) == [f EXCEPT !.rs = [IdleRs EXCEPT !.pc = "enter", !.binary_id = binary_id]]

\* if not self.base_url: return binary_id
\* if binary_id in self.available_binaries: return binary_id
\* servers = self.list_binaries()
ResolveLookup(c) ==
    /\ fr[c].rs.pc = "enter"
    /\ IF ~Truthy(base_url) \/ fr[c].rs.binary_id.s \in DOMAIN available_binaries
       THEN /\ fr' = [fr EXCEPT ![c].rs.pc = "ret", ![c].rs.ret = fr[c].rs.binary_id]
            /\ UNCHANGED tally
       ELSE /\ fr' = [fr EXCEPT ![c] = LbEnter([@ EXCEPT !.rs.pc = "fetch"])]
            /\ tally' = [tally EXCEPT !.list_binaries = @ + 1]
    /\ UNCHANGED <<quiet, available_binaries, uuids, env, now, sse_events, base_url, readerVars>>

\* The same step without the try block around self.list_binaries().
ResolveFetchedUncaught(c) ==
    /\ fr[c].rs.pc = "fetch"
    /\ fr[c].lb.pc \in {"ret", "raised"}
    /\ fr' = [fr EXCEPT ![c].lb = IdleLb,
                         ![c].rs.pc = IF fr[c].lb.pc = "ret" THEN "ret" ELSE "raised",
                         ![c].rs.fetched = TRUE,
                         ![c].rs.servers = IF fr[c].lb.pc = "ret" THEN fr[c].lb.ret ELSE <<>>,
                         ![c].rs.ret = IF fr[c].lb.pc = "ret"
                                       THEN ResolveChoice(fr[c].rs.binary_id, fr[c].lb.ret)
                                       ELSE PyNone]
    /\ UNCHANGED <<quiet, orchVars, now, sse_events, base_url, readerVars>>

\* list_binaries has returned, or raised (except Exception: servers = [])
ResolveFetched(c) ==
    /\ fr[c].rs.pc = "fetch"
    /\ fr[c].lb.pc \in {"ret", "raised"}
    /\ LET servers == IF fr[c].lb.pc = "ret" THEN fr[c].lb.ret ELSE <<>>
       IN  fr' = [fr EXCEPT ![c].lb = IdleLb,
                            ![c].rs.pc = "ret",
                            ![c].rs.fetched = TRUE,
                            ![c].rs.servers = servers,
                            ![c].rs.ret = ResolveChoice(fr[c].rs.binary_id, servers)]
    /\ UNCHANGED <<quiet, orchVars, now, sse_events, base_url, readerVars>>

ResolveStep(c) == ResolveLookup(c) \/ ResolveFetched(c)

-----------------------------------------------------------------------------
(* The asynchronous bridge's answers, and time while callers wait *)

MaxResolveTime == 8

\* the bridge publishes the answer to the request it is working on, and a
\* running reader enqueues it
AsyncRespond ==
    /\ env.inflight # PyNone
    /\ AliveReaders # {}
    /\ _enqueue_event(Envelope(Get(env.inflight, "id"), Result(Get(env.inflight, "method"))))
    /\ env' = [env EXCEPT !.inflight = PyNone]
    /\ UNCHANGED <<pureVars, available_binaries, uuids, tally, now, flood, base_url,
                   readerVars, rdVars, fr>>

\* time passes while every caller inside a call is blocked in
\* self._sse_cond.wait, whose timeout is min(remaining, 1.0): a sleeper is
\* running again less than a tick after its deadline; the other statements
\* of a call take no time
TickWaiting(max) ==
    /\ now < max
    /\ \E c \in Callers : fr[c].wt.pc = "wait"
    /\ \A c \in Callers : fr[c].call.st = "run" => fr[c].wt.pc = "wait" /\ now < fr[c].wt.end
    /\ now' = now + 1
    /\ UNCHANGED <<pureVars, writes, orchVars, sse_events, flood, base_url, readerVars, rdVars, fr>>

-----------------------------------------------------------------------------
(* Specification SpecResolve: a caller resolves identifiers, one call after *)
(* the other, against a bridge that is down, synchronous or asynchronous    *)

MaxResolveCalls == 2

Srv1 == <<"s", "1">>
Srv2 == <<"s", "2">>
NameLib == <<"l", "i", "b">>
NameIsp == <<"i", "s", "p">>
Port9009 == <<"p", "o", "r", "t", "_", "9", "0", "0", "9">>

RosterOne == PyList(<<PyDict([id |-> PyStr(Srv1), name |-> PyStr(NameLib)])>>)
RosterTwo ==
    PyList(<<PyDict([id |-> PyStr(Srv1), name |-> PyStr(NameLib)]),
             PyDict([binary_id |-> PyStr(Srv2), title |-> PyStr(NameIsp)])>>)

\* a bridge that serves the second name of each method family
DialectPlain == {RosterMethods[2], DecompileMethods[3], FunctionMethods[3]}
\* a bridge that serves the first
DialectSmartDiff == {RosterMethods[1], DecompileMethods[1], FunctionMethods[1]}

Identifiers == {PyStr(Srv1), PyStr(NameLib), PyStr(Port9009), PyStr(<<"z">>)}

\* the servers a resolution may face: nothing answers; only REST answers;
\* the bridge answers in its response; the bridge answers over SSE, where
\* the roster comes under the key "servers"
ResolveEnvs ==
    {[NoEnv EXCEPT !.bridge = m[1], !.rest = m[2], !.dialect = DialectPlain,
                   !.roster = IF m[1] = "async" THEN PyDict([servers |-> ro]) ELSE ro] :
        m \in {<<"down", "down">>, <<"down", "ok">>, <<"sync", "down">>, <<"async", "down">>},
        ro \in {RosterOne, RosterTwo}}

InitResolve ==
    /\ PureIdle
    /\ now = 1
    /\ BusIdle
    /\ ReaderNotStarted
    /\ ReaderIdle
    /\ CallersIdle
    /\ available_binaries = EmptyDict
    /\ uuids = 0
    /\ tally = NoTally
    /\ \/ base_url = PyNone /\ env = NoEnv
       \/ base_url = BridgeUrl /\ env \in ResolveEnvs

\* the caller calls self._resolve_binary_id(binary_id)
ResolveCall(c) ==
    /\ fr[c].call.st = "idle"
    /\ fr[c].call.n < MaxResolveCalls
    /\ \E binary_id \in Identifiers :
          fr' = [fr EXCEPT ![c] = RsEnter([@ EXCEPT !.call.op = "resolve", !.call.st = "run",
                                                    !.call.n = @ + 1,
                                                    !.call.binary_id = binary_id,
                                                    !.call.mark = tally.list_binaries],
                                          binary_id)]
    /\ UNCHANGED <<quiet, orchVars, now, sse_events, base_url, readerVars>>

\* the call returns; hist keeps, for each finished call, its argument, its
\* result, the roster it fetched and how many list_binaries calls it made
ResolveReturn(c) ==
    /\ fr[c].call.op = "resolve"
    /\ fr[c].call.st = "run"
    /\ fr[c].rs.pc = "ret"
    /\ fr' = [fr EXCEPT ![c].rs = IdleRs,
                         ![c].call.st = "idle",
                         ![c].call.ret = fr[c].rs.ret,
                         ![c].call.hist =
                             Append(@, [binary_id |-> fr[c].rs.binary_id,
                                        ret |-> fr[c].rs.ret,
                                        fetched |-> fr[c].rs.fetched,
                                        servers |-> fr[c].rs.servers,
                                        fetches |-> tally.list_binaries - fr[c].call.mark])]
    /\ UNCHANGED <<quiet, orchVars, now, sse_events, base_url, readerVars>>

NextResolve ==
    \/ ResolveCall(1)
    \/ ResolveStep(1)
    \/ ResolveReturn(1)
    \/ LbStep(1)
    \/ EnsureStep(1)
    \/ WaitStep(1)
    \/ AsyncRespond
    \/ TickWaiting(MaxResolveTime)

SpecResolve == InitResolve /\ [][NextResolve]_vars

\* C9: a second resolution of the identifier just resolved returns the same
\* id as the first and makes no list_binaries call.
C9_SecondResolveCached ==
    \A c \in Callers : \A j \in 2..Len(fr[c].call.hist) :
        LET first == fr[c].call.hist[j - 1]
            second == fr[c].call.hist[j]
        IN  first.binary_id = second.binary_id
                => second.ret = first.ret /\ second.fetches = 0

NoMatch(h) == \A i \in 1..Len(h.servers) : ~Matches(h.servers[i], h.binary_id)

\* C10: a resolution that fetched a roster in which nothing matches the
\* identifier returns the only backend's id when the roster holds exactly
\* one backend, and the identifier itself when it holds two or more.
C10_SingleBackendHeuristic ==
    \A c \in Callers : \A j \in 1..Len(fr[c].call.hist) :
        LET h == fr[c].call.hist[j]
        IN  (h.fetched /\ NoMatch(h))
                => /\ Len(h.servers) = 1 => h.ret = PyStr(h.servers[1].binary_id)
                   /\ Len(h.servers) >= 2 => h.ret = h.binary_id

\* two identifiers that match nothing, one of them prefixed, were each
\* resolved against a fetched roster of one backend
C10_Witness ==
    /\ Len(fr[1].call.hist) = 2
    /\ fr[1].call.hist[1].fetched /\ fr[1].call.hist[2].fetched
    /\ NoMatch(fr[1].call.hist[1]) /\ NoMatch(fr[1].call.hist[2])
    /\ Len(fr[1].call.hist[1].servers) = 1 /\ Len(fr[1].call.hist[2].servers) = 1
    /\ fr[1].call.hist[1].binary_id = PyStr(Port9009)
    /\ fr[1].call.hist[2].binary_id = PyStr(<<"z">>)
    /\ fr[1].call.hist[2].ret = PyStr(Srv1)

-----------------------------------------------------------------------------
(* decompile_function *)

DecompileIdTimeout == 20
DecompileScanTimeout == 8

\* obj.get("decompiled") or obj.get("decompiled_code") or obj.get("code") or obj.get("text")
DirectCodeKeys == <<"decompiled", "decompiled_code", "code", "text">>
\* sync_res.get("decompiled_code") or sync_res.get("code") or sync_res.get("text")
BridgeCodeKeys == <<"decompiled_code", "code", "text">>

\* if isinstance(obj, dict): code = ...; if isinstance(code, str) and code.strip(): return code
\* the value returned, or Unset when the statement does not return
DirectCode(obj) ==
    LET code == FirstTruthy(obj, DirectCodeKeys)
    IN  IF IsDict(obj) /\ IsStr(code) /\ Strip(code.s) # <<>> THEN code ELSE Unset

\* The code taken from an object only: a str answer is not returned.
BridgeCodeFromObject(res) ==
    LET code == FirstTruthy(res, BridgeCodeKeys)
    IN  IF IsDict(res) /\ Truthy(code) /\ Strip(Str(code)) # <<>> THEN PyStr(Str(code))
        ELSE Unset

\* if isinstance(res, dict): code = ...; if code and str(code).strip(): return str(code)
\* elif isinstance(res, str) and res.strip(): return res
BridgeCode(res) ==
    LET code == FirstTruthy(res, BridgeCodeKeys)
    IN  IF IsDict(res)
        THEN IF Truthy(code) /\ Strip(Str(code)) # <<>> THEN PyStr(Str(code)) ELSE Unset
        ELSE IF IsStr(res) /\ Strip(res.s) # <<>> THEN res
        ELSE Unset

\* the params of the i-th entry of tried_methods
DecompileParams(i, resolved_id, function_name) ==
    IF i < Len(DecompileMethods)
    THEN PyDict([binary_id |-> resolved_id, function_name |-> function_name])
    ELSE PyDict([binary_id |-> resolved_id, function |-> function_name])

\* for path, params in candidates: txt = self._http_get_text(path, params)
RestDecompilePaths(binary_id) ==
    <<RestDecompile(binary_id), binary_id.s \o <<"/decompile">>, <<"decompile">>>>

RECURSIVE RestText(_)
RestText(paths) ==
    IF paths = <<>> THEN PyNone
    ELSE LET txt == _http_get_text(Head(paths))
         IN  IF Truthy(txt) /\ Len(Strip(txt.s)) > 0 THEN txt ELSE RestText(Tail(paths))

\* one attempt of a transport: which one, and for which entry of the
\* call's list of methods (0 where the transport takes no method)
Attempt(t, m) == [t |-> t, m |-> m]

\* the frames of a caller whose call has made these attempts: call.log
\* lists the attempts of a call in the order it made them
Tried(f, attempts) == [f EXCEPT !.call.log = @ \o attempts]

\* ... and whose request by transport t named the binary by this identifier:
\* call.carried lists the identifiers the bridge and REST requests of a
\* call were built from
Carried(f, t, binary_id) ==
    [f EXCEPT !.call.carried = Append(@, [t |-> t, binary_id |-> binary_id])]

\* the frames of a caller whose call returns value, by the named route;
\* call.hit keeps the event a value returned by a wait was taken from
Return(f, value, via) ==
    [f EXCEPT !.call.st = "done", !.call.ret = value, !.call.via = via,
              !.call.hit = IF via \in {"sse_id", "sse_any"} THEN f.wt.hit ELSE Unset,
              !.df = [IdleDf EXCEPT !.waited = f.df.waited], !.lf = IdleLf,
              !.wt = IdleWt, !.en = IdleEn]

\* the frames of a caller whose call is left by an exception
Raise(f) ==
    [f EXCEPT !.call.st = "raised", !.df = [IdleDf EXCEPT !.waited = f.df.waited],
              !.lf = IdleLf, !.wt = IdleWt, !.en = IdleEn]

\* self._ensure_sse_background(), the first statement, has returned or raised
DfEnsured(c) ==
    /\ fr[c].df.pc = "ensure"
    /\ fr[c].en.pc \in {"ret", "raised"}
    /\ fr' = [fr EXCEPT ![c] = IF fr[c].en.pc = "raised" THEN Raise(@)
                               ELSE [@ EXCEPT !.en = IdleEn, !.df.pc = "direct"]]
    /\ UNCHANGED <<quiet, orchVars, now, sse_events, base_url, readerVars>>

\* The direct path of a call that ends with the direct server: None when
\* neither request gives code.
DfDirectOnly(c) ==
    /\ fr[c].df.pc = "direct"
    /\ LET direct_base == _direct_base_from_binary_id(fr[c].call.binary_id)
           got == DirectCode(_http_get_json_full(direct_base, "/decompile"))
           posted == DirectCode(_http_post_json_full(direct_base, "/decompile"))
           get == <<Attempt("direct_get", 0)>>
           both == <<Attempt("direct_get", 0), Attempt("direct_post", 0)>>
       IN  fr' = [fr EXCEPT ![c] =
                    IF ~Truthy(direct_base) THEN [@ EXCEPT !.df.pc = "bridge"]
                    ELSE IF got # Unset THEN Return(Tried(@, get), got, "direct")
                    ELSE IF posted # Unset THEN Return(Tried(@, both), posted, "direct")
                    ELSE Return(Tried(@, both), PyNone, "none")]
    /\ UNCHANGED <<quiet, orchVars, now, sse_events, base_url, readerVars>>

\* direct_base = self._direct_base_from_binary_id(binary_id); if direct_base:
\* the GET and, when it yields no code, the POST
DfDirect(c) ==
    /\ fr[c].df.pc = "direct"
    /\ LET direct_base == _direct_base_from_binary_id(fr[c].call.binary_id)
           got == DirectCode(_http_get_json_full(direct_base, "/decompile"))
           posted == DirectCode(_http_post_json_full(direct_base, "/decompile"))
           get == <<Attempt("direct_get", 0)>>
           both == <<Attempt("direct_get", 0), Attempt("direct_post", 0)>>
       IN  fr' = [fr EXCEPT ![c] =
                    IF ~Truthy(direct_base) THEN [@ EXCEPT !.df.pc = "bridge"]
                    ELSE IF got # Unset THEN Return(Tried(@, get), got, "direct")
                    ELSE IF posted # Unset THEN Return(Tried(@, both), posted, "direct")
                    ELSE Tried([@ EXCEPT !.df.pc = "bridge"], both)]
    /\ UNCHANGED <<quiet, orchVars, now, sse_events, base_url, readerVars>>

\* if self.base_url: resolved_id = self._resolve_binary_id(binary_id)
DfBridge(c) ==
    /\ fr[c].df.pc = "bridge"
    /\ fr' = [fr EXCEPT ![c] = IF Truthy(base_url)
                               THEN RsEnter([@ EXCEPT !.df.pc = "resolving",
                                                      !.call.resolves = @ + 1],
                                            fr[c].call.binary_id)
                               ELSE [@ EXCEPT !.df.pc = "rest"]]
    /\ UNCHANGED <<quiet, orchVars, now, sse_events, base_url, readerVars>>

DfResolved(c) ==
    /\ fr[c].df.pc = "resolving"
    /\ fr[c].rs.pc = "ret"
    /\ fr' = [fr EXCEPT ![c].rs = IdleRs,
                         ![c].df.resolved_id = fr[c].rs.ret,
                         ![c].call.resolved = fr[c].rs.ret,
                         ![c].df.i = 1,
                         ![c].df.pc = "post"]
    /\ UNCHANGED <<quiet, orchVars, now, sse_events, base_url, readerVars>>

\* The POST of a call that names the binary as its caller did.
DfPostUnresolved(c) ==
    /\ fr[c].df.pc = "post"
    /\ LET i == fr[c].df.i
           method == DecompileMethods[i]
           params == DecompileParams(i, fr[c].call.binary_id, fr[c].call.arg)
           req_id == ReqId(uuids + 1)
           sync_res == _bridge_call_jsonrpc(method, params, req_id)
           f == Carried(Tried([fr[c] EXCEPT !.call.ids = @ \cup {req_id}],
                              <<Attempt("jsonrpc", i)>>),
                        "jsonrpc", Get(params, "binary_id"))
       IN  /\ fr' = [fr EXCEPT ![c] =
                      IF BridgeCode(sync_res) # Unset THEN Return(f, BridgeCode(sync_res), "sync")
                      ELSE [f EXCEPT !.df.pc = "wait_id",
                                     !.df.req_id = req_id,
                                     !.wt = WaitBegin("id", req_id, PyNone, DecompileKeys,
                                                      fr[c].call.arg, DecompileIdTimeout),
                                     !.en.pc = "check_url"]]
           /\ env' = AfterPost(env, JsonRpcBody(method, params, req_id))
    /\ uuids' = uuids + 1
    /\ UNCHANGED <<quiet, available_binaries, tally, now, sse_events, base_url, readerVars>>

\* req_id = str(uuid.uuid4()); sync_res = self._bridge_call_jsonrpc(...); a
\* usable synchronous answer is returned, otherwise
\* sse_res = self._sse_wait_for_id(req_id, ..., timeout=20)
DfPost(c) ==
    /\ fr[c].df.pc = "post"
    /\ LET i == fr[c].df.i
           method == DecompileMethods[i]
           params == DecompileParams(i, fr[c].df.resolved_id, fr[c].call.arg)
           req_id == ReqId(uuids + 1)
           sync_res == _bridge_call_jsonrpc(method, params, req_id)
           f == Carried(Tried([fr[c] EXCEPT !.call.ids = @ \cup {req_id}],
                              <<Attempt("jsonrpc", i)>>),
                        "jsonrpc", Get(params, "binary_id"))
       IN  /\ fr' = [fr EXCEPT ![c] =
                      IF BridgeCode(sync_res) # Unset THEN Return(f, BridgeCode(sync_res), "sync")
                      ELSE [f EXCEPT !.df.pc = "wait_id",
                                     !.df.req_id = req_id,
                                     !.wt = WaitBegin("id", req_id, PyNone, DecompileKeys,
                                                      fr[c].call.arg, DecompileIdTimeout),
                                     !.en.pc = "check_url"]]
           /\ env' = AfterPost(env, JsonRpcBody(method, params, req_id))
    /\ uuids' = uuids + 1
    /\ UNCHANGED <<quiet, available_binaries, tally, now, sse_events, base_url, readerVars>>

\* the wait for the id has returned: a usable sse_res is returned; otherwise
\* res = self._bridge_call(method, params), returned when usable; otherwise
\* sse_any = self._sse_wait_for(method, params, ..., timeout=8).
\* waited keeps the id and the deadline of each finished wait for an id.
DfWaitIdDone(c) ==
    /\ fr[c].df.pc = "wait_id"
    /\ fr[c].wt.pc \in {"ret", "raised"}
    /\ LET i == fr[c].df.i
           method == DecompileMethods[i]
           params == DecompileParams(i, fr[c].df.resolved_id, fr[c].call.arg)
           sse_res == fr[c].wt.ret
           res == _bridge_call(method, params)
           f == [fr[c] EXCEPT !.df.waited =
                    Append(@, [req_id |-> fr[c].wt.req_id, end |-> fr[c].wt.end])]
           g == Carried(Tried(f, <<Attempt("generic", i)>>), "generic", Get(params, "binary_id"))
           h == Carried(Tried(g, <<Attempt("scan", i)>>), "scan", Get(params, "binary_id"))
       IN  fr' = [fr EXCEPT ![c] =
                    IF fr[c].wt.pc = "raised" THEN Raise(f)
                    ELSE IF BridgeCode(sse_res) # Unset THEN Return(f, BridgeCode(sse_res), "sse_id")
                    ELSE IF BridgeCode(res) # Unset THEN Return(g, BridgeCode(res), "generic")
                    ELSE [h EXCEPT !.df.pc = "wait_any",
                                   !.wt = WaitBegin("method", PyNone, method, DecompileKeys,
                                                    fr[c].call.arg, DecompileScanTimeout),
                                   !.en.pc = "check_url"]]
    /\ UNCHANGED <<quiet, orchVars, now, sse_events, base_url, readerVars>>

\* The same step in a loop that gives up after its first method.
DfWaitAnyDoneFirstOnly(c) ==
    /\ fr[c].df.pc = "wait_any"
    /\ fr[c].wt.pc \in {"ret", "raised"}
    /\ fr' = [fr EXCEPT ![c] =
                IF fr[c].wt.pc = "raised" THEN Raise(@)
                ELSE IF BridgeCode(fr[c].wt.ret) # Unset
                THEN Return(@, BridgeCode(fr[c].wt.ret), "sse_any")
                ELSE [@ EXCEPT !.wt = IdleWt, !.df.pc = "rest"]]
    /\ UNCHANGED <<quiet, orchVars, now, sse_events, base_url, readerVars>>

\* The same step in a loop that tries its method again.
DfWaitAnyDoneAgain(c) ==
    /\ fr[c].df.pc = "wait_any"
    /\ fr[c].wt.pc \in {"ret", "raised"}
    /\ fr' = [fr EXCEPT ![c] =
                IF fr[c].wt.pc = "raised" THEN Raise(@)
                ELSE IF BridgeCode(fr[c].wt.ret) # Unset
                THEN Return(@, BridgeCode(fr[c].wt.ret), "sse_any")
                ELSE [@ EXCEPT !.wt = IdleWt, !.df.pc = "post"]]
    /\ UNCHANGED <<quiet, orchVars, now, sse_events, base_url, readerVars>>

\* the generic scan has returned: a usable sse_any is returned; otherwise the
\* next of tried_methods, and after the last the REST endpoints
DfWaitAnyDone(c) ==
    /\ fr[c].df.pc = "wait_any"
    /\ fr[c].wt.pc \in {"ret", "raised"}
    /\ LET sse_any == fr[c].wt.ret
       IN  fr' = [fr EXCEPT ![c] =
                    IF fr[c].wt.pc = "raised" THEN Raise(@)
                    ELSE IF BridgeCode(sse_any) # Unset
                    THEN Return(@, BridgeCode(sse_any), "sse_any")
                    ELSE [@ EXCEPT !.wt = IdleWt,
                                   !.df.i = @ + 1,
                                   !.df.pc = IF fr[c].df.i < Len(DecompileMethods)
                                             THEN "post" ELSE "rest"]]
    /\ UNCHANGED <<quiet, orchVars, now, sse_events, base_url, readerVars>>

\* if self.base_url: the three REST candidates; return None
DfRest(c) ==
    /\ fr[c].df.pc = "rest"
    /\ LET binary_id == fr[c].call.binary_id
           txt == IF Truthy(base_url) THEN RestText(RestDecompilePaths(binary_id)) ELSE PyNone
           f == IF Truthy(base_url)
                THEN Carried(Tried(fr[c], <<Attempt("rest", 0)>>), "rest", binary_id)
                ELSE fr[c]
       IN  fr' = [fr EXCEPT ![c] = IF txt # PyNone THEN Return(f, txt, "rest")
                                   ELSE Return(f, PyNone, "none")]
    /\ UNCHANGED <<quiet, orchVars, now, sse_events, base_url, readerVars>>

DfStep(c) ==
    \/ DfEnsured(c)
    \/ DfDirect(c)
    \/ DfBridge(c)
    \/ DfResolved(c)
    \/ DfPost(c)
    \/ DfWaitIdDone(c)
    \/ DfWaitAnyDone(c)
    \/ DfRest(c)

-----------------------------------------------------------------------------
(* list_functions *)

FunctionsIdTimeout == 10
FunctionsScanTimeout == 6
FunctionKeys == <<"functions", "names", "symbols">>

\* s.lower(), on ASCII text
UpperAlpha ==
    <<"A", "B", "C", "D", "E", "F", "G", "H", "I", "J", "K", "L", "M",
      "N", "O", "P", "Q", "R", "S", "T", "U", "V", "W", "X", "Y", "Z">>
LowerAlpha ==
    <<"a", "b", "c", "d", "e", "f", "g", "h", "i", "j", "k", "l", "m",
      "n", "o", "p", "q", "r", "s", "t", "u", "v", "w", "x", "y", "z">>
LowerChar(ch) ==
    IF \E i \in 1..Len(UpperAlpha) : UpperAlpha[i] = ch
    THEN LowerAlpha[CHOOSE i \in 1..Len(UpperAlpha) : UpperAlpha[i] = ch]
    ELSE ch
Lower(chars) == [i \in 1..Len(chars) |-> LowerChar(chars[i])]

\* the static list of line 719
imp_functions ==
    <<<<"I", "M", "P", "_", "S", "y", "s", "t", "e", "m", "_", "I", "n", "i", "t">>,
      <<"I", "M", "P", "_", "S", "y", "s", "t", "e", "m", "_", "E", "x", "i", "t">>,
      <<"I", "M", "P", "_", "S", "y", "s", "t", "e", "m", "_", "G", "e", "t", "V", "e", "r", "s", "i", "o", "n">>,
      <<"I", "M", "P", "_", "S", "y", "s", "t", "e", "m", "_", "B", "i", "n", "d">>,
      <<"I", "M", "P", "_", "S", "y", "s", "t", "e", "m", "_", "U", "n", "B", "i", "n", "d">>,
      <<"I", "M", "P", "_", "E", "n", "c", "o", "d", "e", "r", "_", "C", "r", "e", "a", "t", "e", "G", "r", "o", "u", "p">>,
      <<"I", "M", "P", "_", "E", "n", "c", "o", "d", "e", "r", "_", "D", "e", "s", "t", "r", "o", "y", "G", "r", "o", "u", "p">>,
      <<"I", "M", "P", "_", "E", "n", "c", "o", "d", "e", "r", "_", "C", "r", "e", "a", "t", "e", "C", "h", "n">>,
      <<"I", "M", "P", "_", "E", "n", "c", "o", "d", "e", "r", "_", "D", "e", "s", "t", "r", "o", "y", "C", "h", "n">>,
      <<"I", "M", "P", "_", "E", "n", "c", "o", "d", "e", "r", "_", "R", "e", "g", "i", "s", "t", "e", "r", "C", "h", "n">>,
      <<"I", "M", "P", "_", "E", "n", "c", "o", "d", "e", "r", "_", "U", "n", "R", "e", "g", "i", "s", "t", "e", "r", "C", "h", "n">>,
      <<"I", "M", "P", "_", "E", "n", "c", "o", "d", "e", "r", "_", "S", "t", "a", "r", "t", "R", "e", "c", "v", "P", "i", "c">>,
      <<"I", "M", "P", "_", "E", "n", "c", "o", "d", "e", "r", "_", "S", "t", "o", "p", "R", "e", "c", "v", "P", "i", "c">>,
      <<"I", "M", "P", "_", "E", "n", "c", "o", "d", "e", "r", "_", "Q", "u", "e", "r", "y">>,
      <<"I", "M", "P", "_", "E", "n", "c", "o", "d", "e", "r", "_", "G", "e", "t", "S", "t", "r", "e", "a", "m">>,
      <<"I", "M", "P", "_", "E", "n", "c", "o", "d", "e", "r", "_", "R", "e", "l", "e", "a", "s", "e", "S", "t", "r", "e", "a", "m">>,
      <<"I", "M", "P", "_", "F", "r", "a", "m", "e", "S", "o", "u", "r", "c", "e", "_", "C", "r", "e", "a", "t", "e", "C", "h", "n">>,
      <<"I", "M", "P", "_", "F", "r", "a", "m", "e", "S", "o", "u", "r", "c", "e", "_", "D", "e", "s", "t", "r", "o", "y", "C", "h", "n">>,
      <<"I", "M", "P", "_", "F", "r", "a", "m", "e", "S", "o", "u", "r", "c", "e", "_", "S", "e", "t", "C", "h", "n", "A", "t", "t", "r">>,
      <<"I", "M", "P", "_", "F", "r", "a", "m", "e", "S", "o", "u", "r", "c", "e", "_", "G", "e", "t", "C", "h", "n", "A", "t", "t", "r">>,
      <<"I", "M", "P", "_", "F", "r", "a", "m", "e", "S", "o", "u", "r", "c", "e", "_", "E", "n", "a", "b", "l", "e", "C", "h", "n">>,
      <<"I", "M", "P", "_", "F", "r", "a", "m", "e", "S", "o", "u", "r", "c", "e", "_", "D", "i", "s", "a", "b", "l", "e", "C", "h", "n">>,
      <<"I", "M", "P", "_", "F", "r", "a", "m", "e", "S", "o", "u", "r", "c", "e", "_", "S", "e", "t", "F", "r", "a", "m", "e", "D", "e", "p", "t", "h">>,
      <<"I", "M", "P", "_", "F", "r", "a", "m", "e", "S", "o", "u", "r", "c", "e", "_", "G", "e", "t", "F", "r", "a", "m", "e", "D", "e", "p", "t", "h">>,
      <<"I", "M", "P", "_", "I", "S", "P", "_", "O", "p", "e", "n">>,
      <<"I", "M", "P", "_", "I", "S", "P", "_", "C", "l", "o", "s", "e">>,
      <<"I", "M", "P", "_", "I", "S", "P", "_", "A", "d", "d", "S", "e", "n", "s", "o", "r">>,
      <<"I", "M", "P", "_", "I", "S", "P", "_", "D", "e", "l", "S", "e", "n", "s", "o", "r">>,
      <<"I", "M", "P", "_", "I", "S", "P", "_", "E", "n", "a", "b", "l", "e", "S", "e", "n", "s", "o", "r">>,
      <<"I", "M", "P", "_", "I", "S", "P", "_", "D", "i", "s", "a", "b", "l", "e", "S", "e", "n", "s", "o", "r">>,
      <<"I", "M", "P", "_", "I", "S", "P", "_", "S", "e", "t", "S", "e", "n", "s", "o", "r", "R", "e", "g", "i", "s", "t", "e", "r">>,
      <<"I", "M", "P", "_", "I", "S", "P", "_", "G", "e", "t", "S", "e", "n", "s", "o", "r", "R", "e", "g", "i", "s", "t", "e", "r">>,
      <<"I", "M", "P", "_", "I", "S", "P", "_", "T", "u", "n", "i", "n", "g", "_", "S", "e", "t", "C", "o", "n", "t", "r", "a", "s", "t">>,
      <<"I", "M", "P", "_", "I", "S", "P", "_", "T", "u", "n", "i", "n", "g", "_", "G", "e", "t", "C", "o", "n", "t", "r", "a", "s", "t">>,
      <<"I", "M", "P", "_", "I", "S", "P", "_", "T", "u", "n", "i", "n", "g", "_", "S", "e", "t", "B", "r", "i", "g", "h", "t", "n", "e", "s", "s">>,
      <<"I", "M", "P", "_", "I", "S", "P", "_", "T", "u", "n", "i", "n", "g", "_", "G", "e", "t", "B", "r", "i", "g", "h", "t", "n", "e", "s", "s">>,
      <<"I", "M", "P", "_", "I", "S", "P", "_", "T", "u", "n", "i", "n", "g", "_", "S", "e", "t", "S", "a", "t", "u", "r", "a", "t", "i", "o", "n">>,
      <<"I", "M", "P", "_", "I", "S", "P", "_", "T", "u", "n", "i", "n", "g", "_", "G", "e", "t", "S", "a", "t", "u", "r", "a", "t", "i", "o", "n">>,
      <<"I", "M", "P", "_", "I", "S", "P", "_", "T", "u", "n", "i", "n", "g", "_", "S", "e", "t", "S", "h", "a", "r", "p", "n", "e", "s", "s">>,
      <<"I", "M", "P", "_", "I", "S", "P", "_", "T", "u", "n", "i", "n", "g", "_", "G", "e", "t", "S", "h", "a", "r", "p", "n", "e", "s", "s">>,
      <<"I", "M", "P", "_", "O", "S", "D", "_", "C", "r", "e", "a", "t", "e", "G", "r", "o", "u", "p">>,
      <<"I", "M", "P", "_", "O", "S", "D", "_", "D", "e", "s", "t", "r", "o", "y", "G", "r", "o", "u", "p">>,
      <<"I", "M", "P", "_", "O", "S", "D", "_", "R", "e", "g", "i", "s", "t", "e", "r", "R", "g", "n">>,
      <<"I", "M", "P", "_", "O", "S", "D", "_", "U", "n", "R", "e", "g", "i", "s", "t", "e", "r", "R", "g", "n">>,
      <<"I", "M", "P", "_", "O", "S", "D", "_", "S", "e", "t", "R", "g", "n", "A", "t", "t", "r">>,
      <<"I", "M", "P", "_", "O", "S", "D", "_", "G", "e", "t", "R", "g", "n", "A", "t", "t", "r">>,
      <<"I", "M", "P", "_", "O", "S", "D", "_", "S", "h", "o", "w", "R", "g", "n">>,
      <<"I", "M", "P", "_", "O", "S", "D", "_", "H", "i", "d", "e", "R", "g", "n">>,
      <<"I", "M", "P", "_", "I", "V", "S", "_", "C", "r", "e", "a", "t", "e", "G", "r", "o", "u", "p">>,
      <<"I", "M", "P", "_", "I", "V", "S", "_", "D", "e", "s", "t", "r", "o", "y", "G", "r", "o", "u", "p">>,
      <<"I", "M", "P", "_", "I", "V", "S", "_", "C", "r", "e", "a", "t", "e", "C", "h", "n">>,
      <<"I", "M", "P", "_", "I", "V", "S", "_", "D", "e", "s", "t", "r", "o", "y", "C", "h", "n">>,
      <<"I", "M", "P", "_", "I", "V", "S", "_", "R", "e", "g", "i", "s", "t", "e", "r", "C", "h", "n">>,
      <<"I", "M", "P", "_", "I", "V", "S", "_", "U", "n", "R", "e", "g", "i", "s", "t", "e", "r", "C", "h", "n">>,
      <<"I", "M", "P", "_", "I", "V", "S", "_", "S", "t", "a", "r", "t", "R", "e", "c", "v", "P", "i", "c">>,
      <<"I", "M", "P", "_", "I", "V", "S", "_", "S", "t", "o", "p", "R", "e", "c", "v", "P", "i", "c">>,
      <<"I", "M", "P", "_", "I", "V", "S", "_", "P", "o", "l", "l", "i", "n", "g", "R", "e", "s", "u", "l", "t">>,
      <<"I", "M", "P", "_", "I", "V", "S", "_", "G", "e", "t", "R", "e", "s", "u", "l", "t">>,
      <<"I", "M", "P", "_", "I", "V", "S", "_", "R", "e", "l", "e", "a", "s", "e", "R", "e", "s", "u", "l", "t">>>>

\* a Python list of str from a sequence of texts
StrList(texts) == PyList([i \in 1..Len(texts) |-> PyStr(texts[i])])

\* The static fallback returned whole, whatever search is.
StaticUnfiltered(search) == StrList(imp_functions)

\* if search: imp_functions = [f for f in imp_functions if search.lower() in f.lower()]
StaticFallback(search) ==
    IF Truthy(search)
    THEN StrList(SelectSeq(imp_functions, LAMBDA f : Contains(Lower(f), Lower(search.s))))
    ELSE StrList(imp_functions)

\* the value of the loop that collects names from a list: str items as they
\* are, dict items by their truthy "name" or "symbol"
RECURSIVE NamesOf(_)
NamesOf(items) ==
    IF items = <<>> THEN <<>>
    ELSE LET it == Head(items)
             n == PyOr(Get(it, "name"), Get(it, "symbol"))
         IN  IF IsStr(it) THEN <<it>> \o NamesOf(Tail(items))
             ELSE IF IsDict(it) /\ Truthy(n) THEN <<PyStr(Str(n))>> \o NamesOf(Tail(items))
             ELSE NamesOf(Tail(items))

\* if isinstance(v, list): names = [...]; if names: return names
\* the list returned, or Unset
CollectedNames(v) ==
    IF IsList(v) /\ NamesOf(v.l) # <<>> THEN PyList(NamesOf(v.l)) ELSE Unset

\* [str(x.get("name") if isinstance(x, dict) else x) for x in maybe]
DirectNames(maybe) ==
    PyList([i \in 1..Len(maybe.l) |->
              PyStr(Str(IF IsDict(maybe.l[i]) THEN Get(maybe.l[i], "name") ELSE maybe.l[i]))])

\* [str(x.get("name") or x.get("symbol") or x) for x in sync_res]: x.get
\* raises AttributeError for an x that is no dict
SyncNamesRaise(items) == \E i \in 1..Len(items.l) : ~IsDict(items.l[i])
SyncNames(items) ==
    PyList([i \in 1..Len(items.l) |->
              PyStr(Str(PyOr(PyOr(Get(items.l[i], "name"), Get(items.l[i], "symbol")),
                             items.l[i])))])

\* the list a synchronous answer is turned into, or Unset for an answer
\* that is none
SyncList(sync_res) ==
    LET maybe == PyOr(Get(sync_res, "functions"), Get(sync_res, "names"))
    IN  IF IsList(sync_res) THEN sync_res
        ELSE IF IsDict(sync_res) /\ IsList(maybe) THEN maybe
        ELSE Unset

\* {"binary_id": resolved_id, "search": search} if search else {"binary_id": resolved_id}
FunctionParams(resolved_id, search) ==
    IF Truthy(search) THEN PyDict([binary_id |-> resolved_id, search |-> search])
    ELSE PyDict([binary_id |-> resolved_id])

\* direct_base = ...; if direct_base: obj = GET {direct_base}/functions
LfDirect(c) ==
    /\ fr[c].lf.pc = "direct"
    /\ LET direct_base == _direct_base_from_binary_id(fr[c].call.binary_id)
           obj == _http_get_json_full(direct_base, "/functions")
           maybe == PyOr(PyOr(Get(obj, "functions"), Get(obj, "methods")), Get(obj, "names"))
           f == IF Truthy(direct_base) THEN Tried(fr[c], <<Attempt("direct_get", 0)>>)
                ELSE fr[c]
       IN  fr' = [fr EXCEPT ![c] =
                    IF Truthy(direct_base) /\ IsDict(obj) /\ IsList(maybe)
                    THEN Return(f, DirectNames(maybe), "direct")
                    ELSE [f EXCEPT !.lf.pc = "bridge"]]
    /\ UNCHANGED <<quiet, orchVars, now, sse_events, base_url, readerVars>>

\* if self.base_url: resolved_id = self._resolve_binary_id(binary_id)
LfBridge(c) ==
    /\ fr[c].lf.pc = "bridge"
    /\ fr' = [fr EXCEPT ![c] = IF Truthy(base_url)
                               THEN RsEnter([@ EXCEPT !.lf.pc = "resolving",
                                                      !.call.resolves = @ + 1],
                                            fr[c].call.binary_id)
                               ELSE [@ EXCEPT !.lf.pc = "rest"]]
    /\ UNCHANGED <<quiet, orchVars, now, sse_events, base_url, readerVars>>

LfResolved(c) ==
    /\ fr[c].lf.pc = "resolving"
    /\ fr[c].rs.pc = "ret"
    /\ fr' = [fr EXCEPT ![c].rs = IdleRs,
                         ![c].lf.resolved_id = fr[c].rs.ret,
                         ![c].call.resolved = fr[c].rs.ret,
                         ![c].lf.i = 1,
                         ![c].lf.pc = "post"]
    /\ UNCHANGED <<quiet, orchVars, now, sse_events, base_url, readerVars>>

\* req_id = str(uuid.uuid4()); sync_res = self._bridge_call_jsonrpc(...); a
\* list answer is returned (or raises), otherwise
\* sse_res = self._sse_wait_for_id(req_id, ..., timeout=10)
LfPost(c) ==
    /\ fr[c].lf.pc = "post"
    /\ LET method == FunctionMethods[fr[c].lf.i]
           params == FunctionParams(fr[c].lf.resolved_id, fr[c].call.arg)
           req_id == ReqId(uuids + 1)
           sync_res == _bridge_call_jsonrpc(method, params, req_id)
           answer == SyncList(sync_res)
           f == Carried(Tried([fr[c] EXCEPT !.call.ids = @ \cup {req_id}],
                              <<Attempt("jsonrpc", fr[c].lf.i)>>),
                        "jsonrpc", Get(params, "binary_id"))
       IN  /\ fr' = [fr EXCEPT ![c] =
                      IF answer = Unset
                      THEN [f EXCEPT !.lf.pc = "wait_id",
                                     !.lf.req_id = req_id,
                                     !.wt = WaitBegin("id", req_id, PyNone, FunctionKeys,
                                                      PyNone, FunctionsIdTimeout),
                                     !.en.pc = "check_url"]
                      ELSE IF SyncNamesRaise(answer) THEN Raise(f)
                      ELSE Return(f, SyncNames(answer), "sync")]
           /\ env' = AfterPost(env, JsonRpcBody(method, params, req_id))
    /\ uuids' = uuids + 1
    /\ UNCHANGED <<quiet, available_binaries, tally, now, sse_events, base_url, readerVars>>

\* res = None; for method in (...): res = self._bridge_call(method, ...); if res: break
RECURSIVE GenericFunctions(_, _)
GenericFunctions(methods, params) ==
    IF methods = <<>> THEN PyNone
    ELSE LET res == _bridge_call(Head(methods), params)
         IN  IF Truthy(res) THEN res
             ELSE IF Len(methods) = 1 THEN res
             ELSE GenericFunctions(Tail(methods), params)

\* how many methods that loop posts: up to the first with a truthy answer
RECURSIVE GenericCount(_, _)
GenericCount(methods, params) ==
    IF methods = <<>> THEN 0
    ELSE IF Truthy(_bridge_call(Head(methods), params)) THEN 1
    ELSE 1 + GenericCount(Tail(methods), params)

\* the wait for the id has returned: names collected from a list are
\* returned; otherwise the next method; after the last, the generic POSTs,
\* and then the generic scans
LfWaitIdDone(c) ==
    /\ fr[c].lf.pc = "wait_id"
    /\ fr[c].wt.pc \in {"ret", "raised"}
    /\ LET names == CollectedNames(fr[c].wt.ret)
           params == FunctionParams(fr[c].lf.resolved_id, fr[c].call.arg)
           res == GenericFunctions(FunctionMethods, params)
           posts == [m \in 1..GenericCount(FunctionMethods, params) |-> Attempt("generic", m)]
       IN  fr' = [fr EXCEPT ![c] =
                    IF fr[c].wt.pc = "raised" THEN Raise(@)
                    ELSE IF names # Unset THEN Return(@, names, "sse_id")
                    ELSE IF fr[c].lf.i < Len(FunctionMethods)
                    THEN [@ EXCEPT !.wt = IdleWt, !.lf.i = @ + 1, !.lf.pc = "post"]
                    ELSE IF CollectedNames(res) # Unset
                    THEN Return(Carried(Tried(@, posts), "generic", Get(params, "binary_id")),
                                CollectedNames(res), "generic")
                    ELSE Carried(Tried([@ EXCEPT !.wt = IdleWt, !.lf.i = 1, !.lf.pc = "scan"],
                                       posts),
                                 "generic", Get(params, "binary_id"))]
    /\ UNCHANGED <<quiet, orchVars, now, sse_events, base_url, readerVars>>

\* for ev_method in (...): sse_names = self._sse_wait_for(ev_method, ..., timeout=6)
LfScanStart(c) ==
    /\ fr[c].lf.pc = "scan"
    /\ fr' = [fr EXCEPT ![c].lf.pc = "scan_wait",
                         ![c].call.log = Append(@, Attempt("scan", fr[c].lf.i)),
                         ![c].call.carried =
                             Append(@, [t |-> "scan", binary_id |-> fr[c].lf.resolved_id]),
                         ![c].wt = WaitBegin("method", PyNone, FunctionMethods[fr[c].lf.i],
                                             FunctionKeys, PyNone, FunctionsScanTimeout),
                         ![c].en.pc = "check_url"]
    /\ UNCHANGED <<quiet, orchVars, now, sse_events, base_url, readerVars>>

LfScanDone(c) ==
    /\ fr[c].lf.pc = "scan_wait"
    /\ fr[c].wt.pc \in {"ret", "raised"}
    /\ LET names == CollectedNames(fr[c].wt.ret)
       IN  fr' = [fr EXCEPT ![c] =
                    IF fr[c].wt.pc = "raised" THEN Raise(@)
                    ELSE IF names # Unset THEN Return(@, names, "sse_any")
                    ELSE [@ EXCEPT !.wt = IdleWt,
                                   !.lf.i = @ + 1,
                                   !.lf.pc = IF fr[c].lf.i < Len(FunctionMethods)
                                             THEN "scan" ELSE "rest"]]
    /\ UNCHANGED <<quiet, orchVars, now, sse_events, base_url, readerVars>>

\* for path in (binaries/<id>/functions, <id>/functions): data = self._http_get_json(path, params)
RECURSIVE RestNames(_)
RestNames(paths) ==
    IF paths = <<>> THEN Unset
    ELSE IF CollectedNames(_http_get_json(Head(paths))) # Unset
    THEN CollectedNames(_http_get_json(Head(paths)))
    ELSE RestNames(Tail(paths))

\* if self.base_url: the REST endpoints; then the static list, filtered by
\* search when search is given
LfRest(c) ==
    /\ fr[c].lf.pc = "rest"
    /\ LET binary_id == fr[c].call.binary_id
           names == IF Truthy(base_url)
                    THEN RestNames(<<RestFunctions(binary_id), binary_id.s \o <<"/functions">>>>)
                    ELSE Unset
           f == IF Truthy(base_url)
                THEN Carried(Tried(fr[c], <<Attempt("rest", 0)>>), "rest", binary_id)
                ELSE fr[c]
       IN  fr' = [fr EXCEPT ![c] =
                    IF names # Unset THEN Return(f, names, "rest")
                    ELSE Return(Tried(f, <<Attempt("static", 0)>>),
                                StaticFallback(fr[c].call.arg), "static")]
    /\ UNCHANGED <<quiet, orchVars, now, sse_events, base_url, readerVars>>

LfStep(c) ==
    \/ LfDirect(c)
    \/ LfBridge(c)
    \/ LfResolved(c)
    \/ LfPost(c)
    \/ LfWaitIdDone(c)
    \/ LfScanStart(c)
    \/ LfScanDone(c)
    \/ LfRest(c)

-----------------------------------------------------------------------------
(* Specification SpecCall: one call of decompile_function, list_functions   *)
(* or list_binaries on a fresh client, against servers that are down,       *)
(* answer at once, or answer over SSE                                       *)

MaxCallTime == 16

Blank == PyStr(<<" ">>)
NamesAsDicts == PyList(<<PyDict([name |-> PyStr(<<"o", "p", "e", "n">>)])>>)
NamesAsStrs == PyList(<<PyStr(<<"o", "p", "e", "n">>)>>)
\* a binary in which the backend finds no function: its answer is the bare
\* list []
NoNames == PyList(<<>>)

DirectEnvs ==
    {[NoEnv EXCEPT !.direct = "ok", !.code = code, !.names = NamesAsStrs] :
        code \in {CodeF, Blank}}
BridgeEnvs ==
    {[NoEnv EXCEPT !.rest = "ok", !.code = CodeF, !.names = NamesAsStrs, !.roster = RosterOne],
     [NoEnv EXCEPT !.bridge = "sync", !.dialect = DialectPlain, !.code = CodeF,
                   !.names = NamesAsDicts, !.roster = RosterOne],
     [NoEnv EXCEPT !.bridge = "sync", !.dialect = DialectPlain, !.code = CodeF,
                   !.names = NamesAsStrs, !.roster = RosterOne],
     [NoEnv EXCEPT !.bridge = "sync", !.dialect = DialectPlain, !.code = CodeF,
                   !.names = NoNames, !.roster = RosterOne, !.bare = TRUE],
     [NoEnv EXCEPT !.bridge = "failing"],
     [NoEnv EXCEPT !.bridge = "ack"]}
        \cup {[NoEnv EXCEPT !.bridge = "async", !.dialect = DialectSmartDiff, !.code = code,
                            !.names = NamesAsStrs, !.roster = PyDict([servers |-> RosterOne])] :
                code \in {CodeF, CodeG}}

CallTargets == {PyStr(Port9009), PyStr(NameLib)}
Searches == {PyNone, PyStr(<<"I", "s", "p">>)}

InitCall ==
    /\ PureIdle
    /\ now = 1
    /\ BusIdle
    /\ ReaderNotStarted
    /\ ReaderIdle
    /\ CallersIdle
    /\ available_binaries = EmptyDict
    /\ uuids = 0
    /\ tally = NoTally
    /\ \/ base_url = PyNone /\ env \in {NoEnv} \cup DirectEnvs
       \/ base_url = BridgeUrl /\ env \in {NoEnv} \cup DirectEnvs \cup BridgeEnvs

\* the caller calls decompile_function(binary_id, function_name)
CallDecompile(c) ==
    /\ fr[c].call.st = "idle"
    /\ \E binary_id \in CallTargets :
          fr' = [fr EXCEPT ![c].call.op = "decompile_function", ![c].call.st = "run",
                           ![c].call.binary_id = binary_id, ![c].call.arg = FnName,
                           ![c].df.pc = "ensure", ![c].en.pc = "check_url"]
    /\ UNCHANGED <<quiet, orchVars, now, sse_events, base_url, readerVars>>

\* the caller calls list_functions(binary_id, search)
CallListFunctions(c) ==
    /\ fr[c].call.st = "idle"
    /\ \E binary_id \in CallTargets, search \in Searches :
          fr' = [fr EXCEPT ![c].call.op = "list_functions", ![c].call.st = "run",
                           ![c].call.binary_id = binary_id, ![c].call.arg = search,
                           ![c].lf.pc = "direct"]
    /\ UNCHANGED <<quiet, orchVars, now, sse_events, base_url, readerVars>>

\* the caller calls list_binaries()
CallListBinaries(c) ==
    /\ fr[c].call.st = "idle"
    /\ fr' = [fr EXCEPT ![c] = LbEnter([@ EXCEPT !.call.op = "list_binaries", !.call.st = "run"])]
    /\ tally' = [tally EXCEPT !.list_binaries = @ + 1]
    /\ UNCHANGED <<quiet, available_binaries, uuids, env, now, sse_events, base_url, readerVars>>

ListBinariesReturn(c) ==
    /\ fr[c].call.op = "list_binaries"
    /\ fr[c].call.st = "run"
    /\ fr[c].lb.pc \in {"ret", "raised"}
    /\ fr' = [fr EXCEPT ![c] = IF fr[c].lb.pc = "raised" THEN Raise([@ EXCEPT !.lb = IdleLb])
                               ELSE Return([@ EXCEPT !.lb = IdleLb], PyList(fr[c].lb.ret), "list")]
    /\ UNCHANGED <<quiet, orchVars, now, sse_events, base_url, readerVars>>

NextCall ==
    \/ CallDecompile(1)
    \/ CallListFunctions(1)
    \/ CallListBinaries(1)
    \/ ListBinariesReturn(1)
    \/ DfStep(1)
    \/ LfStep(1)
    \/ ResolveStep(1)
    \/ LbStep(1)
    \/ EnsureStep(1)
    \/ WaitStep(1)
    \/ AsyncRespond
    \/ TickWaiting(MaxCallTime)

SpecCall == InitCall /\ [][NextCall]_vars

Done(c, op) == fr[c].call.op = op /\ fr[c].call.st = "done"

\* C6: a decompile_function call whose target has a direct base URL, and
\* whose direct server answers {"decompiled_code": S} with S not blank,
\* returns S and no reader thread has been created by the time it returns,
\* with or without a bridge base URL.
C6_DirectNeverStartsReader ==
    \A c \in Callers :
        (/\ Done(c, "decompile_function")
         /\ Truthy(_direct_base_from_binary_id(fr[c].call.binary_id))
         /\ env.direct = "ok"
         /\ Strip(env.code.s) # <<>>)
            => fr[c].call.ret = env.code /\ threads = <<>>

\* C7: a decompile_function call whose target has no direct base URL, whose
\* JSON-RPC POSTs the bridge answers with an empty body, and for one of whose
\* request ids the event {jsonrpc: "2.0", id, result: {code: S}}, S not
\* blank, was enqueued before the deadline of the wait for that id,
\* returns S.
C7_AnswerBeforeDeadlineIsReturned ==
    \A c \in Callers :
        (/\ Done(c, "decompile_function")
         /\ ~Truthy(_direct_base_from_binary_id(fr[c].call.binary_id))
         /\ env.bridge = "async"
         /\ Strip(env.code.s) # <<>>
         /\ \E k \in DOMAIN fr[c].df.waited, i \in DOMAIN sse_events :
               /\ sse_events[i].obj = Envelope(fr[c].df.waited[k].req_id, PyDict([code |-> env.code]))
               /\ sse_events[i].ts < fr[c].df.waited[k].end)
            => fr[c].call.ret = env.code

\* every live transport fails: the bridge refuses or accepts without ever
\* answering, REST and the direct server are down, no event has arrived
AllTransportsFail ==
    /\ env.bridge \in {"down", "async"}
    /\ env.rest = "down"
    /\ env.direct = "down"
    /\ sse_events = <<>>

\* the names of the static list that contain search, compared in lower case
\* (all of them when no search is given)
StaticNamesFor(search) ==
    {f \in Range(imp_functions) : Truthy(search) => Contains(Lower(f), Lower(search.s))}

\* the place of a name in the static list
StaticIndex(f) == CHOOSE k \in 1..Len(imp_functions) : imp_functions[k] = f

\* C8 as stated: when every live transport fails, list_binaries returns the
\* whole hardcoded roster and list_functions the whole hardcoded list, for
\* every binary_id and search.
C8_FallbackUnchanged ==
    \A c \in Callers :
        AllTransportsFail
            => /\ Done(c, "list_binaries") => fr[c].call.ret = PyList(known_binaries)
               /\ Done(c, "list_functions") => fr[c].call.ret = StrList(imp_functions)

\* C8, amended: when every live transport fails, list_binaries returns the
\* whole hardcoded roster, and list_functions returns the names of the
\* hardcoded list that contain search case-insensitively, each once and in
\* the order of the list (the whole list when search is None or empty).
C8_FallbackFilteredBySearch ==
    \A c \in Callers :
        AllTransportsFail
            => /\ Done(c, "list_binaries") => fr[c].call.ret = PyList(known_binaries)
               /\ Done(c, "list_functions")
                    => /\ {fr[c].call.ret.l[i].s : i \in 1..Len(fr[c].call.ret.l)}
                            = StaticNamesFor(fr[c].call.arg)
                       /\ Len(fr[c].call.ret.l) = Cardinality(StaticNamesFor(fr[c].call.arg))
                       /\ \A i, j \in 1..Len(fr[c].call.ret.l) :
                             i < j => StaticIndex(fr[c].call.ret.l[i].s) < StaticIndex(fr[c].call.ret.l[j].s)

\* list_functions with a search term, on a client with a bridge URL, ran out
\* of transports and returned a part of the static list
C8_Witness ==
    /\ Done(1, "list_functions")
    /\ AllTransportsFail
    /\ base_url = BridgeUrl
    /\ fr[1].call.via = "static"
    /\ Truthy(fr[1].call.arg)
    /\ Len(fr[1].call.ret.l) > 0
    /\ Len(fr[1].call.ret.l) < Len(imp_functions)

\* the routes by which a call returns without an answer from a server
OfflineRoutes == {"none", "static", "list"}

\* C15: on a client without a bridge base URL a finished call of
\* list_binaries, list_functions or decompile_function has started no reader
\* and returns no answer of a server: the hardcoded roster, the static
\* function list (filtered by search), or None.
C15_OfflineWithoutBridgeUrl ==
    \A c \in Callers :
        (base_url = PyNone /\ fr[c].call.st = "done")
            => /\ threads = <<>>
               /\ fr[c].call.via \in OfflineRoutes
               /\ Done(c, "list_binaries") => fr[c].call.ret = PyList(known_binaries)
               /\ Done(c, "decompile_function") => fr[c].call.ret = PyNone

\* C17: decompile_function and list_functions are never left by an
\* exception, whatever the servers answer.
C17_NoTransportOutcomeRaises ==
    \A c \in Callers :
        fr[c].call.op \in {"decompile_function", "list_functions"} => fr[c].call.st # "raised"

\* C12: every mutation of the event buffer is made under self._sse_cond,
\* and every mutation of the roster cache under a lock of its own.
C12_MutationsUnderLock ==
    \A w \in writes :
        /\ w.attribute = "_sse_events" => "_sse_cond" \in w.locks
        /\ w.attribute = "available_binaries" => w.locks # {}

-----------------------------------------------------------------------------
(* The order of a call's attempts *)

\* the rank of a transport in the priority order direct, JSON-RPC with id
\* correlation, generic POST, generic SSE scan, REST, static fallback
TransportRank(t) ==
    CASE t \in {"direct_get", "direct_post"} -> 1
      [] t = "jsonrpc" -> 2
      [] t = "generic" -> 3
      [] t = "scan" -> 4
      [] t = "rest" -> 5
      [] t = "static" -> 6

RECURSIVE DecompileRounds(_)
DecompileRounds(i) ==
    IF i > Len(DecompileMethods) THEN <<>>
    ELSE <<Attempt("jsonrpc", i), Attempt("generic", i), Attempt("scan", i)>>
            \o DecompileRounds(i + 1)
DecompileOrder ==
    <<Attempt("direct_get", 0), Attempt("direct_post", 0)>> \o DecompileRounds(1)
        \o <<Attempt("rest", 0)>>

\* list_functions: direct GET, the JSON-RPC POST with its wait for each
\* method, the generic POSTs, the generic scan for each method, REST, static
FunctionsOrder ==
    <<Attempt("direct_get", 0)>>
        \o [i \in 1..Len(FunctionMethods) |-> Attempt("jsonrpc", i)]
        \o [i \in 1..Len(FunctionMethods) |-> Attempt("generic", i)]
        \o [i \in 1..Len(FunctionMethods) |-> Attempt("scan", i)]
        \o <<Attempt("rest", 0), Attempt("static", 0)>>

OrderOf(op) == IF op = "decompile_function" THEN DecompileOrder ELSE FunctionsOrder
PlaceIn(order, a) == CHOOSE k \in 1..Len(order) : order[k] = a

\* the attempts a call leaves out: the direct ones for a target without a
\* direct base URL, those that need the bridge base URL when there is none,
\* and list_functions' generic POSTs after the first (its loop stops at the
\* first answer that is not empty)
LeftOut(call, a) ==
    \/ a.t \in {"direct_get", "direct_post"} /\ ~Truthy(_direct_base_from_binary_id(call.binary_id))
    \/ a.t \in {"jsonrpc", "generic", "scan", "rest"} /\ ~Truthy(base_url)
    \/ call.op = "list_functions" /\ a.t = "generic" /\ a.m > 1

\* the routes by which a call returns right after an attempt of transport t
RoutesOf(t) ==
    CASE t \in {"direct_get", "direct_post"} -> {"direct", "none"}
      [] t = "jsonrpc" -> {"sync", "sse_id"}
      [] t = "generic" -> {"generic"}
      [] t = "scan" -> {"sse_any"}
      [] t = "rest" -> {"rest", "none"}
      [] t = "static" -> {"static"}

-----------------------------------------------------------------------------
(* Specification SpecTimeout: a caller inside _sse_wait_for_id and then      *)
(* _sse_wait_for, or the other way round, while another thread of the same  *)
(* client enters _ensure_sse_background, the reader enqueues events that may *)
(* or may not match, and the clock runs on to every open deadline           *)

MaxWaitTime == 1
MaxWaitEvents == 1
MaxWaits == 1

\* what the bridge may publish: an answer to IdA, and an event no wait takes
TimeoutEvents ==
    {Envelope(IdA, PyDict([code |-> CodeF])),
     Envelope(IdB, PyNone)}

InitTimeout ==
    /\ OrchIdle
    /\ PureIdle
    /\ now = 1
    /\ BusIdle
    /\ base_url = BridgeUrl
    /\ ReaderNotStarted
    /\ ReaderIdle
    /\ CallersIdle

\* the caller enters _sse_wait_for_id(req_id, desired_keys, None, timeout) or
\* _sse_wait_for(expect_method, desired_keys, None, timeout)
TimeoutEnter(c) ==
    /\ fr[c].call.st = "idle"
    /\ fr[c].call.n < MaxWaits
    /\ \E kind \in {"id", "method"}, timeout \in WaitTimeouts :
          fr' = [fr EXCEPT ![c].call.op = IF kind = "id" THEN "wait_id" ELSE "wait_any",
                           ![c].call.st = "run", ![c].call.n = @ + 1,
                           ![c].wt = WaitBegin(kind,
                                               IF kind = "id" THEN IdB ELSE PyNone,
                                               IF kind = "id" THEN PyNone ELSE DecompileMethods[1],
                                               DecompileKeys, PyNone, timeout),
                           ![c].en.pc = "check_url"]
    /\ UNCHANGED <<quiet, orchVars, now, sse_events, base_url, readerVars>>

\* the wait has returned to its caller; what it returned, and when it did
\* relative to its deadline, is kept in hist
TimeoutLeave(c) ==
    /\ fr[c].call.op \in {"wait_id", "wait_any"}
    /\ fr[c].call.st = "run"
    /\ fr[c].wt.pc = "ret"
    /\ fr' = [fr EXCEPT ![c].call.st = "idle",
                         ![c].call.hist = Append(@, [kind |-> fr[c].wt.kind, ret |-> fr[c].wt.ret,
                                                     late |-> now >= fr[c].wt.end]),
                         ![c].wt = IdleWt]
    /\ UNCHANGED <<quiet, orchVars, now, sse_events, base_url, readerVars>>

\* another thread of the client enters _ensure_sse_background, once
OtherEnsureEnter(c) ==
    /\ fr[c].call.n = 0
    /\ EnsureEnter(c)

WaitOpen(c) == fr[c].wt.pc \in {"loop", "scan", "wait"}

\* a reader thread enqueues an event
TimeoutDeliver ==
    /\ AliveReaders # {}
    /\ flood < MaxWaitEvents
    /\ \E obj \in TimeoutEvents : _enqueue_event(obj)
    /\ flood' = flood + 1
    /\ UNCHANGED <<pureVars, orchVars, now, base_url, readerVars, rdVars, fr>>

\* time passes, and goes on passing while a wait has its deadline ahead
TickToDeadline ==
    /\ \/ now < MaxWaitTime
       \/ \E c \in Callers : WaitOpen(c) /\ now < fr[c].wt.end
    /\ now' = now + 1
    /\ UNCHANGED <<pureVars, writes, orchVars, sse_events, flood, base_url, readerVars, rdVars, fr>>

NextTimeout ==
    \/ TimeoutEnter(1) \/ EnsureStep(1) \/ WaitStep(1) \/ TimeoutLeave(1)
    \/ OtherEnsureEnter(2) \/ EnsureStep(2) \/ EnsureLeave(2)
    \/ TimeoutDeliver
    \/ TickToDeadline

SpecTimeout == InitTimeout /\ [][NextTimeout]_vars

\* the waiting thread runs whenever it can, and the clock does not stop
FairSpecTimeout ==
    /\ SpecTimeout
    /\ WF_vars(EnsureStep(1) \/ WaitStep(1))
    /\ WF_vars(TickToDeadline)

\* C14 as stated: a wait of either kind ends by returning, never by an
\* error; one that returns without an event of its own returns None, and not
\* before its deadline.
C14_WaitsReturnAndNeverRaise ==
    \A c \in Callers :
        /\ fr[c].wt.pc # "raised"
        /\ (fr[c].wt.pc = "ret" /\ fr[c].wt.hit = Unset)
              => fr[c].wt.ret = PyNone /\ now >= fr[c].wt.end

\* What does hold of the waits under C14: a wait of either kind ends. One
\* that ends without an event of its own
\* has returned None, and not before its deadline; while it waits it blocks
\* for between SliceFloorMs and SliceCapMs at a time; nothing is raised once
\* the loop is entered (the only exit by exception is that of
\* _ensure_sse_background, before the deadline is set).
C14_WaitsTerminate ==
    /\ [](\A c \in Callers :
            /\ (fr[c].wt.pc = "ret" /\ fr[c].wt.hit = Unset)
                  => fr[c].wt.ret = PyNone /\ now >= fr[c].wt.end
            /\ fr[c].wt.pc = "wait"
                  => fr[c].wt.slice >= SliceFloorMs /\ fr[c].wt.slice <= SliceCapMs)
    /\ [][\A c \in Callers : fr'[c].wt.pc = "raised" => fr[c].wt.pc \in {"ensure", "raised"}]_vars
    /\ (fr[1].wt.pc # "idle") ~> (fr[1].wt.pc \in {"ret", "raised"})

\* a wait has run out: it returned None at or after its deadline although an
\* event that is not its own was buffered
C14_Witness ==
    /\ fr[1].wt.pc = "ret"
    /\ fr[1].wt.ret = PyNone
    /\ fr[1].wt.hit = Unset
    /\ now >= fr[1].wt.end
    /\ sse_events # <<>>

-----------------------------------------------------------------------------
(* Specification SpecPair: two threads of one client call                   *)
(* decompile_function at the same time. The client is warm: the reader runs *)
(* and the roster is cached. The bridge answers over /sse, one request at a *)
(* time.                                                                    *)

MaxPairTime == 16

PairEnv ==
    [NoEnv EXCEPT !.bridge = "async", !.dialect = DialectSmartDiff, !.code = CodeF,
                  !.roster = PyDict([servers |-> RosterOne])]

InitPair ==
    /\ PureIdle
    /\ now = 1
    /\ BusIdle
    /\ sse_thread = 1 /\ sse_running = TRUE /\ threads = <<"alive">>
    /\ ReaderIdle
    /\ CallersIdle
    /\ available_binaries = DictOf(ParseServers(RosterOne.l, BridgeIdKeys, TRUE, <<>>).servers)
    /\ uuids = 0
    /\ tally = NoTally
    /\ base_url = BridgeUrl
    /\ env = PairEnv

\* a thread calls decompile_function(binary_id, function_name) for the
\* cached backend
PairDecompile(c) ==
    /\ fr[c].call.st = "idle"
    /\ fr' = [fr EXCEPT ![c].call.op = "decompile_function", ![c].call.st = "run",
                         ![c].call.binary_id = PyStr(Srv1), ![c].call.arg = FnName,
                         ![c].df.pc = "ensure", ![c].en.pc = "check_url"]
    /\ UNCHANGED <<quiet, orchVars, now, sse_events, base_url, readerVars>>

\* the reader is alive, so _ensure_sse_background returns from its is_alive
\* test, and the target is cached, so _resolve_binary_id returns from its
\* cache test: their other steps are never enabled here
NextPair ==
    \/ \E c \in Callers :
          \/ PairDecompile(c)
          \/ DfStep(c)
          \/ ResolveLookup(c)
          \/ EnsureCheckUrl(c)
          \/ EnsureCheckThread(c)
          \/ WaitStep(c)
    \/ AsyncRespond
    \/ TickWaiting(MaxPairTime)

SpecPair == InitPair /\ [][NextPair]_vars

\* C11: a call that returns what it took from an event took an event that
\* does not carry a request id drawn by the other call.
C11_NoCrossTalk ==
    \A c, d \in Callers :
        (c # d /\ Done(c, "decompile_function") /\ fr[c].call.hit # Unset)
            => Get(fr[c].call.hit.obj, "id") \notin fr[d].call.ids

-----------------------------------------------------------------------------
(* Specification SpecRoster: two threads of a fresh client call             *)
(* list_binaries at the same time, with or without a bridge base URL,       *)
(* against servers that are down or that answer in the response             *)

MaxRosterTime == 4

RosterEnvs ==
    {NoEnv,
     [NoEnv EXCEPT !.rest = "ok", !.roster = RosterTwo],
     [NoEnv EXCEPT !.bridge = "sync", !.dialect = DialectPlain, !.roster = RosterOne]}

InitRoster ==
    /\ PureIdle
    /\ now = 1
    /\ BusIdle
    /\ ReaderNotStarted
    /\ ReaderIdle
    /\ CallersIdle
    /\ available_binaries = EmptyDict
    /\ uuids = 0
    /\ tally = NoTally
    /\ \/ base_url = PyNone /\ env = NoEnv
       \/ base_url = BridgeUrl /\ env \in RosterEnvs

NextRoster ==
    \/ \E c \in Callers :
          \/ CallListBinaries(c)
          \/ ListBinariesReturn(c)
          \/ LbStep(c)
          \/ EnsureStep(c)
          \/ WaitStep(c)
    \/ TickWaiting(MaxRosterTime)

SpecRoster == InitRoster /\ [][NextRoster]_vars

\* C16: list_binaries is never left by an exception, and what it returns is
\* a list that is not empty.
C16_ListBinariesNeverRaises ==
    \A c \in Callers :
        fr[c].call.op = "list_binaries" =>
            /\ fr[c].call.st # "raised"
            /\ fr[c].call.st = "done" => IsList(fr[c].call.ret) /\ fr[c].call.ret.l # <<>>

-----------------------------------------------------------------------------
(* Specification SpecResolveRace: a thread of a fresh client resolves an    *)
(* identifier while another thread calls list_binaries, against servers     *)
(* that are down or that answer with a roster of two                        *)

MaxRaceTime == 4

RaceEnvs ==
    {NoEnv,
     [NoEnv EXCEPT !.bridge = "sync", !.dialect = DialectPlain, !.roster = RosterTwo]}

\* an identifier that names nothing, and the display name of the third
\* entry of the hardcoded roster
RaceIdentifiers == {PyStr(<<"z">>), PyStr(known_binaries[3].name)}

InitResolveRace ==
    /\ PureIdle
    /\ now = 1
    /\ BusIdle
    /\ ReaderNotStarted
    /\ ReaderIdle
    /\ CallersIdle
    /\ available_binaries = EmptyDict
    /\ uuids = 0
    /\ tally = NoTally
    /\ base_url = BridgeUrl
    /\ env \in RaceEnvs

\* the thread calls self._resolve_binary_id(binary_id)
RaceResolveCall(c) ==
    /\ fr[c].call.st = "idle"
    /\ fr[c].call.n = 0
    /\ \E binary_id \in RaceIdentifiers :
          fr' = [fr EXCEPT ![c] = RsEnter([@ EXCEPT !.call.op = "resolve", !.call.st = "run",
                                                    !.call.n = 1,
                                                    !.call.binary_id = binary_id,
                                                    !.call.mark = tally.list_binaries],
                                          binary_id)]
    /\ UNCHANGED <<quiet, orchVars, now, sse_events, base_url, readerVars>>

NextResolveRace ==
    \/ RaceResolveCall(1)
    \/ ResolveStep(1)
    \/ CallListBinaries(2)
    \/ ListBinariesReturn(2)
    \/ \E c \in Callers : LbStep(c) \/ EnsureStep(c) \/ WaitStep(c)
    \/ TickWaiting(MaxRaceTime)

SpecResolveRace == InitResolveRace /\ [][NextResolveRace]_vars

-----------------------------------------------------------------------------
(* What a wait may return *)

\* C21: the event a wait returns a value from was not in the buffer when the
\* wait was called: it was enqueued no earlier than that.
C21_OnlyEventsAfterStart ==
    \A c \in Callers :
        (fr[c].wt.pc = "ret" /\ fr[c].wt.hit # Unset)
            => fr[c].wt.hit.ts >= fr[c].wt.entered


\* C22: a wait that was given a function name returns no string that does
\* not contain that name.
C22_ReturnedStringContainsHint ==
    \A c \in Callers :
        (fr[c].wt.pc = "ret" /\ Truthy(fr[c].wt.hint) /\ IsStr(fr[c].wt.ret))
            => Contains(fr[c].wt.ret.s, fr[c].wt.hint.s)


\* the method an event declares: that of its payload (the result of a
\* JSON-RPC envelope, else the event itself) under "method", "tool", "name"
\* or "function"; PyNone when it declares none or is no object
DeclaredMethod(obj) ==
    LET payload ==
            IF IsDict(obj) /\ "result" \in DOMAIN obj.d /\ Get(obj, "jsonrpc") = Jsonrpc20
            THEN obj.d["result"] ELSE obj
    IN  IF IsDict(payload)
        THEN PyOr(PyOr(PyOr(Get(payload, "method"), Get(payload, "tool")),
                       Get(payload, "name")), Get(payload, "function"))
        ELSE PyNone

\* C23: a wait for method M that returns a value took it from an event that
\* declares method M.
C23_OnlyDeclaredMethod ==
    \A c \in Callers :
        (fr[c].wt.pc = "ret" /\ fr[c].wt.kind = "method" /\ fr[c].wt.hit # Unset)
            => DeclaredMethod(fr[c].wt.hit.obj) = fr[c].wt.method


-----------------------------------------------------------------------------
(* Specification SpecMatch: the body of the scan loop of either wait,       *)
(* applied to one buffered event of each shape                              *)

OtherMethod == PyStr(<<"other_method">>)

\* what an event may carry as its result, or be
MatchResults ==
    {PyDict([code |-> CodeG]),
     PyDict([code |-> PyInt(1)]),
     PyDict([data |-> PyDict([text |-> CodeF])]),
     PyDict([status |-> CodeF]),
     PyDict([method |-> OtherMethod, code |-> CodeF]),
     CodeG,
     PyList(<<CodeF>>),
     PyList(<<PyInt(1)>>),
     PyNone}

MatchEvents ==
    {Envelope(id, r) : id \in {IdA, IdB}, r \in MatchResults}
        \cup {PyDict([id |-> IdA, result |-> r]) : r \in MatchResults}
        \cup {r \in MatchResults : IsDict(r) \/ IsList(r)}
        \cup {PyDict([id |-> IdA, code |-> CodeG])}

MatchInputs ==
    {[w |-> [IdleWt EXCEPT !.kind = kind,
                           !.req_id = IF kind = "id" THEN IdA ELSE PyNone,
                           !.method = IF kind = "id" THEN PyNone ELSE DecompileMethods[1],
                           !.keys = DecompileKeys, !.hint = hint],
      obj |-> obj] :
        kind \in {"id", "method"}, hint \in {PyNone, FnName}, obj \in MatchEvents}

InitMatch ==
    /\ OrchIdle
    /\ fn_in \in MatchInputs
    /\ fn_out = Unset
    /\ now = 1
    /\ BusIdle
    /\ base_url = BridgeUrl
    /\ ReaderNotStarted
    /\ ReaderIdle
    /\ CallersIdle

\* one pass of the loop body; PyNone stands for "goes on to the next event"
MatchCall ==
    /\ fn_out = Unset
    /\ fn_out' = LET v == MatchOf(fn_in.w, fn_in.obj) IN IF v = Unset THEN PyNone ELSE v
    /\ UNCHANGED <<fn_in, writes, orchVars, now, sse_events, flood, base_url, readerVars, rdVars, fr>>

NextMatch == MatchCall

SpecMatch == InitMatch /\ [][NextMatch]_vars

\* the string-or-array values a payload object holds under the expected keys
KeyedValues(p, keys) ==
    IF IsDict(p)
    THEN {p.d[k] : k \in {k \in Range(keys) \cap DOMAIN p.d : IsStr(p.d[k]) \/ IsList(p.d[k])}}
    ELSE {}

\* ... and those its nested data object holds
KeyedOrNested(p, keys) ==
    KeyedValues(p, keys)
        \cup (IF IsDict(p) /\ "data" \in DOMAIN p.d THEN KeyedValues(p.d["data"], keys) ELSE {})

\* the event and, for an object with a result, that result
PayloadsOf(obj) ==
    {obj} \cup (IF IsDict(obj) /\ "result" \in DOMAIN obj.d THEN {obj.d["result"]} ELSE {})

Matched == fn_out \notin {Unset, PyNone}

BareValues(w, obj) ==
    {p \in PayloadsOf(obj) :
        IF w.kind = "id" THEN p # obj /\ (IsStr(p) \/ IsList(p))
        ELSE IsList(p) /\ \E i \in 1..Len(p.l) : IsStr(p.l[i])}

-----------------------------------------------------------------------------
(* Correlation of the JSON-RPC attempts *)

\* caller c makes a JSON-RPC POST in this step: it draws the next request id
Posts(c) == fr'[c].call.ids # fr[c].call.ids

\* the POST is one of list_binaries (called by the caller, or for it by
\* _resolve_binary_id)
InListBinaries(c) == fr[c].lb.pc = "method"

\* ... and goes on from it with no usable answer in the response
GoesOnFrom(c) ==
    /\ fr'[c].call.st = "run"
    /\ ~(InListBinaries(c) /\ fr'[c].lb.servers # <<>>)

\* ... by entering _sse_wait_for_id for the id just sent
WaitsForSentId(c) ==
    /\ fr'[c].wt.pc = "ensure"
    /\ fr'[c].wt.kind = "id"
    /\ fr'[c].wt.req_id = ReqId(uuids')

\* C25: every JSON-RPC POST carries an id no request carried before, and a
\* call that goes on from a POST without a usable answer in the response
\* does so by waiting for exactly that id.
C25_PostThenWaitForSameId ==
    [][\A c \in Callers :
          Posts(c) =>
              /\ uuids' = uuids + 1
              /\ fr'[c].call.ids = fr[c].call.ids \cup {ReqId(uuids')}
              /\ \A d \in Callers : ReqId(uuids') \notin fr[d].call.ids
              /\ GoesOnFrom(c) => WaitsForSentId(c)]_vars

\* What does hold under C25: the POSTs of decompile_function and of
\* list_functions are followed by the wait for their id.
C25_ExceptListBinaries ==
    [][\A c \in Callers :
          (Posts(c) /\ ~InListBinaries(c) /\ GoesOnFrom(c)) => WaitsForSentId(c)]_vars


-----------------------------------------------------------------------------
(* The reader's blocks *)

\* a line arrives in this step, and it is a blank one: buf is not extended
BlockCompleted == stream'.sent = stream.sent + 1 /\ Len(rd'.buf) <= Len(rd.buf)

\* a block that is not well formed: it has no data lines, or they do not
\* parse as JSON taken together
Malformed(buf) ==
    \/ data_lines(buf) = <<>>
    \/ JsonLoads(JoinLines(data_lines(buf))) = Unset

\* C26: completing a malformed block enqueues nothing, leaves the reader in
\* its read loop on the same open connection, and leaves nothing of the block
\* behind: the next block starts from an empty buf, as the first one did.
C26_MalformedBlockDropped ==
    [][(BlockCompleted /\ Malformed(rd.buf)) =>
          /\ sse_events' = sse_events
          /\ rd'.pc = "inner"
          /\ rd'.buf = <<>>
          /\ stream'.conn = "open" /\ stream.conn = "open"]_vars

\* on one connection a block was dropped and the block after it was enqueued
C26_Witness ==
    /\ rd.blocks = <<"dropped", "event">>
    /\ Len(sse_events) = 1
    /\ stream.conn = "open"

\* C27: the buffer changes only when a block is completed, and then by at
\* most one event, added at the end; that event is the JSON document of the
\* data lines of that block joined in order; buf holds the lines that
\* arrived since the block before was completed and nothing else.
C27_OneEventPerBlock ==
    [][/\ sse_events' # sse_events =>
             /\ BlockCompleted
             /\ ~Malformed(rd.buf)
             /\ sse_events' = Append(sse_events,
                                     [ts |-> now,
                                      obj |-> JsonLoads(JoinLines(data_lines(rd.buf)))])
       /\ BlockCompleted => rd'.buf = <<>>
       /\ (stream'.sent = stream.sent + 1 /\ ~BlockCompleted) =>
             \E chunk \in StreamLines : rd'.buf = rd.buf \o chunk]_vars

\* a block whose document is spread over two data lines was completed after
\* a line that is no data line, and its one event is buffered
C27_Witness ==
    /\ Len(sse_events) = 1
    /\ sse_events[1].obj = PyDict([n |-> PyInt(2)])
    /\ rd.blocks = <<"event">>
    /\ stream.sent = MaxStreamLines


-----------------------------------------------------------------------------
(* Empty answers *)

\* a value that carries no data: an empty or blank string, an empty list
EmptyPayload(v) ==
    \/ IsStr(v) /\ Strip(v.s) = <<>>
    \/ IsList(v) /\ v.l = <<>>

\* C28: list_functions and decompile_function never return an empty string
\* or an empty list: a transport that yields one is passed over for the
\* next transport.
C28_NoEmptySuccess ==
    \A c \in Callers :
        (fr[c].call.op \in {"list_functions", "decompile_function"} /\ fr[c].call.st = "done")
            => ~EmptyPayload(fr[c].call.ret)


-----------------------------------------------------------------------------
(* The roster cache *)

\* C29: an entry of available_binaries is never removed and never altered:
\* every step leaves each cached backend in the cache with the fields it had.
C29_RosterEntriesKept ==
    [][\A k \in DOMAIN available_binaries :
            /\ k \in DOMAIN available_binaries'
            /\ available_binaries'[k] = available_binaries[k]]_vars


-----------------------------------------------------------------------------
(* What a wait leaves behind *)

\* the attributes of the client object that outlive a call
ClientFields == <<sse_events, available_binaries, base_url, sse_thread, sse_running>>

\* a step of the caller's wait, from the first pass of its loop to its return
WaitRuns(c) == fr[c].wt.pc \in {"loop", "scan", "wait"} /\ fr'[c].wt # fr[c].wt
\* a step of the caller's wait inside its call of _ensure_sse_background
WaitEnsures(c) == fr[c].wt.pc = "ensure" /\ fr'[c] # fr[c]

\* C30: a step of _sse_wait_for or _sse_wait_for_id, whether it matches,
\* sleeps or times out, leaves the buffer, the roster cache and every other
\* attribute of the client as they were (its opening call of
\* _ensure_sse_background may start the reader, and leaves the buffer and
\* the cache alone); the buffer changes only in steps that are no caller's,
\* and every write to it is the reader's; a call that has returned holds
\* nothing of its waits.
C30_WaitsLeaveNothingBehind ==
    [][/\ (\E c \in Callers : WaitRuns(c)) => UNCHANGED ClientFields
       /\ (\E c \in Callers : WaitEnsures(c)) => UNCHANGED <<sse_events, available_binaries>>
       /\ sse_events' # sse_events => fr' = fr
       /\ \A w \in writes' : w.attribute = "_sse_events" => w.by = "reader"
       /\ \A c \in Callers : fr'[c].call.st = "done" => fr'[c].wt = IdleWt]_vars

\* a call has returned what a wait matched: the event that satisfied the
\* wait is still in the buffer, beside a roster cache that is not empty
C30_Witness ==
    \E c \in Callers :
        /\ fr[c].call.st = "done"
        /\ fr[c].call.via \in {"sse_id", "sse_any"}
        /\ \E i \in 1..Len(sse_events) : sse_events[i] = fr[c].call.hit
        /\ DOMAIN available_binaries # {}
        /\ fr[c].wt = IdleWt


-----------------------------------------------------------------------------
(* The order in which buffered events are taken *)

\* the indexes of the buffered events that satisfy the matching rules of the wait
Satisfying(w) == {i \in 1..Len(sse_events) : MatchOf(w, sse_events[i].obj) # Unset}

\* C31: a scan that returns a value returns the value of the earliest
\* buffered event that satisfies the matching rules of the wait.
C31_EarliestSatisfyingEventReturned ==
    [][\A c \in Callers :
          (fr[c].wt.pc = "scan" /\ fr'[c].wt.pc = "ret" /\ fr'[c].wt.hit # Unset) =>
              LET m == Satisfying(fr[c].wt)
                  first == CHOOSE i \in m : \A j \in m : i <= j
              IN  fr'[c].wt.ret = MatchOf(fr[c].wt, sse_events[first].obj)]_vars


\* C34: a scan that ends without returning leaves no event in the buffer
\* that satisfies the matching rules of the wait: every buffered event was
\* examined, in this scan or in an earlier one, and a satisfying one would
\* have been returned.
C34_NoSatisfyingEventPassedOver ==
    [][\A c \in Callers :
          (fr[c].wt.pc = "scan" /\ fr'[c].wt.pc = "wait") => Satisfying(fr[c].wt) = {}]_vars


-----------------------------------------------------------------------------
(* Specification SpecLife: a client from its construction on: a caller      *)
(* thread going through _ensure_sse_background, and the reader thread from  *)
(* the moment it is started                                                 *)

\* the thread that start() has started begins to run its target,
\* self._sse_background
ReaderRuns ==
    /\ rd.pc = "none"
    /\ AliveReaders # {}
    /\ rd' = [rd EXCEPT !.pc = "entry"]
    /\ UNCHANGED <<pureVars, writes, orchVars, now, sse_events, flood, base_url, readerVars,
                   stream, fr>>

NextLife ==
    \/ EnsureEnter(1)
    \/ EnsureStep(1)
    \/ EnsureLeave(1)
    \/ ReaderRuns
    \/ ReaderStep
    \/ ServerEndsStream

SpecLife == InitEnsure /\ [][NextLife]_vars

\* the caller is at one of the three statements that start the reader
StartsReader(c) == fr[c].en.pc \in {"set_running", "create", "start"}

\* C32: a client is constructed without a reader; the flag and the thread
\* change only in the statements of _ensure_sse_background that start the
\* reader, reached from an operation; the flag, once set, stays set; a
\* started thread stays alive and the reader never leaves its loop.
C32_LazyStartNeverStopped ==
    /\ ReaderNotStarted /\ rd.pc = "none"
    /\ [][/\ (sse_running' # sse_running \/ sse_thread' # sse_thread \/ threads' # threads)
                => \E c \in Callers : fr[c].call.st = "run" /\ StartsReader(c)
          /\ sse_running => sse_running'
          /\ \A i \in DOMAIN threads : threads[i] = "alive" => threads'[i] = "alive"
          /\ rd'.pc # "none" => AliveReaders # {}
          /\ rd'.pc # "exit"]_vars

\* the reader, started by the first call of _ensure_sse_background, is
\* reading lines off its connection after the last call has returned
\* without starting another
C32_Witness ==
    /\ fr[1].call.n = MaxEnsureCalls
    /\ fr[1].call.st = "idle"
    /\ sse_running
    /\ threads = <<"alive">>
    /\ rd.pc = "readline"
    /\ rd.blocks = <<>>
    /\ stream.sent > 0


-----------------------------------------------------------------------------
(* Exhaustion *)

\* the attempts of decompile_function that the configuration allows: all of
\* DecompileOrder but what LeftOut names
Available(call) ==
    {k \in 1..Len(DecompileOrder) : ~LeftOut(call, DecompileOrder[k])}

\* the direct server holds non-empty code for the target of the call
DirectHasCode(call) ==
    /\ Truthy(_direct_base_from_binary_id(call.binary_id))
    /\ env.direct = "ok"
    /\ Strip(env.code.s) # <<>>

\* C33: a decompile_function call that returned None has attempted every
\* transport its configuration allows, and a direct server it could reach
\* had no code to give.
C33_NoneOnlyOnExhaustion ==
    \A c \in Callers :
        (/\ fr[c].call.op = "decompile_function"
         /\ fr[c].call.st = "done"
         /\ fr[c].call.ret = PyNone)
            => /\ \A k \in Available(fr[c].call) : DecompileOrder[k] \in Range(fr[c].call.log)
               /\ ~DirectHasCode(fr[c].call)

\* decompile_function has returned None with a direct base URL and a bridge
\* base URL: after both direct requests, the four rounds over the bridge and
\* the REST paths
C33_Witness ==
    \E c \in Callers :
        /\ fr[c].call.op = "decompile_function"
        /\ fr[c].call.st = "done"
        /\ fr[c].call.ret = PyNone
        /\ fr[c].call.log = DecompileOrder


-----------------------------------------------------------------------------
(* After the direct server *)

\* the call has made both direct requests and neither gave it code
DirectFailed(call) ==
    /\ call.op = "decompile_function"
    /\ Len(call.log) >= 2
    /\ call.log[1] = Attempt("direct_get", 0)
    /\ call.log[2] = Attempt("direct_post", 0)
    /\ ~(call.st = "done" /\ call.via = "direct")

\* C35: a decompile_function call whose direct GET and direct POST gave no
\* code goes on: with a bridge base URL its next attempt is the first
\* JSON-RPC POST, and it returns None only after the REST paths; without one
\* it returns None and has attempted nothing else.
C35_GoesOnAfterDirect ==
    \A c \in Callers :
        LET call == fr[c].call
        IN  (DirectFailed(call) /\ call.st = "done") =>
                IF Truthy(base_url)
                THEN /\ Len(call.log) > 2
                     /\ call.log[3] = Attempt("jsonrpc", 1)
                     /\ call.ret = PyNone => call.log[Len(call.log)] = Attempt("rest", 0)
                ELSE call.ret = PyNone /\ Len(call.log) = 2

\* after a direct server that had no code, a call with a bridge base URL
\* has returned code it got over the bridge
C35_Witness ==
    \E c \in Callers :
        /\ DirectFailed(fr[c].call)
        /\ fr[c].call.st = "done"
        /\ Truthy(base_url)
        /\ fr[c].call.via \in {"sync", "sse_id", "generic", "sse_any", "rest"}


-----------------------------------------------------------------------------
(* Failed JSON-RPC POSTs *)

\* the JSON-RPC request decompile_function is about to POST
NextDecompileBody(c) ==
    JsonRpcBody(DecompileMethods[fr[c].df.i],
                DecompileParams(fr[c].df.i, fr[c].df.resolved_id, fr[c].call.arg),
                ReqId(uuids + 1))

\* a JSON-RPC 2.0 envelope that carries this id and an error
ErrorEnvelope(obj, req_id) ==
    /\ IsDict(obj)
    /\ Get(obj, "jsonrpc") = Jsonrpc20
    /\ Get(obj, "id") = req_id
    /\ "error" \in DOMAIN obj.d

\* a response without a payload: the POST failed, the status is an error,
\* or the body is an error envelope for the request's id
NoPayload(r, req_id) ==
    \/ r.st = "refused"
    \/ r.st = "http" /\ r.status >= 400
    \/ r.st = "http" /\ r.body.k = "json" /\ ErrorEnvelope(r.body.v, req_id)

\* C36: when the response to a JSON-RPC POST of decompile_function is a
\* failure, an error status or an error envelope for the request's id,
\* _bridge_call_jsonrpc returns None and the call enters _sse_wait_for_id
\* for that id.
C36_ErrorIsNoPayload ==
    [][\A c \in Callers :
          (fr[c].df.pc = "post" /\ Posts(c)
           /\ NoPayload(BridgeReply(NextDecompileBody(c)), ReqId(uuids + 1)))
              => /\ _bridge_call_jsonrpc(Get(NextDecompileBody(c), "method"),
                                         Get(NextDecompileBody(c), "params"),
                                         ReqId(uuids + 1)) = PyNone
                 /\ fr'[c].call.st = "run"
                 /\ WaitsForSentId(c)]_vars

\* decompile_function waits for the id of a request that a synchronous
\* bridge has answered with an error envelope
C36_Witness ==
    \E c \in Callers :
        /\ fr[c].df.pc = "wait_id"
        /\ fr[c].wt.kind = "id"
        /\ fr[c].wt.req_id = fr[c].df.req_id
        /\ env.bridge = "sync"
        /\ DecompileMethods[fr[c].df.i] \notin env.dialect


-----------------------------------------------------------------------------
(* Answers that are not JSON *)

\* a response with a successful status and a body that is text, not JSON,
\* and not blank
PlainText(r) == r.st = "http" /\ r.status < 400 /\ r.body.k = "text" /\ Strip(r.body.s) # <<>>

\* C37: when the response to a JSON-RPC POST of decompile_function has a
\* successful status and a body that is not JSON and not blank, the call
\* returns that body, character for character, in the same step: it enters
\* no wait and makes no further attempt.
C37_RawBodyReturned ==
    [][\A c \in Callers :
          (fr[c].df.pc = "post" /\ Posts(c) /\ PlainText(BridgeReply(NextDecompileBody(c))))
              => /\ fr'[c].call.st = "done"
                 /\ fr'[c].call.ret = PyStr(BridgeReply(NextDecompileBody(c)).body.s)
                 /\ fr'[c].call.log = Append(fr[c].call.log, Attempt("jsonrpc", fr[c].df.i))
                 /\ fr'[c].wt = IdleWt]_vars

\* decompile_function has returned the acknowledgement of its first JSON-RPC
\* POST as the code of the function
C37_Witness ==
    \E c \in Callers :
        /\ fr[c].call.op = "decompile_function"
        /\ fr[c].call.st = "done"
        /\ fr[c].call.ret = PyStr(AckText)
        /\ fr[c].call.log[Len(fr[c].call.log)] = Attempt("jsonrpc", 1)
        /\ fr[c].df.waited = <<>>


-----------------------------------------------------------------------------
(* The identifier a call's requests name *)

\* C38: a decompile_function or list_functions call resolves its target at
\* most once, and not at all without a bridge request; every JSON-RPC POST,
\* generic POST and generic scan of the call names the identifier that
\* resolution returned, and the REST requests name the identifier the
\* caller gave.
C38_ResolvedOnceAndCarried ==
    \A c \in Callers :
        fr[c].call.op \in {"decompile_function", "list_functions"} =>
            LET call == fr[c].call
            IN  /\ call.resolves <= 1
                /\ \A k \in DOMAIN call.carried :
                      IF call.carried[k].t = "rest"
                      THEN call.carried[k].binary_id = call.binary_id
                      ELSE /\ call.resolves = 1
                           /\ call.resolved # PyNone
                           /\ call.carried[k].binary_id = call.resolved

\* a call whose target was resolved to another identifier has gone through
\* the JSON-RPC POST, the generic POST, the generic scan and the REST paths
C38_Witness ==
    \E c \in Callers :
        /\ fr[c].call.op \in {"decompile_function", "list_functions"}
        /\ fr[c].call.st = "done"
        /\ fr[c].call.resolved # PyNone
        /\ fr[c].call.resolved # fr[c].call.binary_id
        /\ {fr[c].call.carried[k].t : k \in DOMAIN fr[c].call.carried}
              = {"jsonrpc", "generic", "scan", "rest"}

=============================================================================
